---- MODULE Spec2Model ----
(***************************************************************************)
(* A model of the repository-ingestion pipeline and of the streaming query *)
(* orchestrator of github-graph (backend/app).                             *)
(*                                                                         *)
(*   Spec       the ingestion run: RepositoryController.add_repository     *)
(*              followed by the background worker                          *)
(*              FileProcessingService.process_repository_files, with the   *)
(*              task and repository documents it writes.                   *)
(***************************************************************************)
EXTENDS Integers, Sequences, FiniteSets, TLC

None == "None"

(***************************************************************************)
(* Bounds of the model (not program constants).                            *)
(***************************************************************************)
MaxBatches == 2   \* file counts range over 0 .. MaxBatches full batches ...
MaxExtra == 1     \* ... plus up to MaxExtra files in a last partial batch
MaxPieces == 4    \* a streamed text is made of at most MaxPieces pieces (tags, plain characters)
MaxRuns == 2      \* stream_query runs on the same (session_id, repo_id)
MaxContentDeltas == 2  \* content deltas the LLM streams in one run (all iterations)
MaxToolDeltas == 5     \* tool-call deltas the LLM streams in one run (all iterations)
MaxToolIndex == 1      \* tool-call deltas carry an index in 0..MaxToolIndex
MaxToolCalls == 3      \* whole tool calls the LLM streams in a run over an indexed repository
MaxHistory == 1        \* earlier exchanges already stored in the conversation
MaxSpan == 2000        \* a class spans at most MaxSpan lines (line_end - line_start)
MaxFiles == 3          \* paths a repository may contain
MaxFollowed == 2       \* coroutines of a batch whose end is followed one by one
MaxChunks == 2         \* chunks with tool-call deltas in one LLM stream
MaxSmallSpan == 10     \* span of the small classes of a file
ShapeLines == 10       \* lines a top-level definition of a parsed source takes
MaxResponsePieces == 4 \* a response of the analyzer is made of at most MaxResponsePieces pieces
MaxOverLimit == 2      \* File documents of a repository beyond the default limit of get_files_by_repo
MaxExcluded == 1       \* stored paths under an excluded directory
MaxSimilarity == 2     \* steps of the similarity of a stored vector to the query vector
MaxEmbeddings == 2     \* records in the embeddings array of a searched file
MaxFanFiles == 2       \* File documents of the repository the fan-out stages work on

(***************************************************************************)
(* Program constants.                                                      *)
(***************************************************************************)
BATCH_SIZE == 100 \* file_processing_service.py:127

(***************************************************************************)
(* TaskStep (models/task_steps.py): the enum values in declaration order.  *)
(***************************************************************************)
QUEUED == "queued"
FETCHING == "fetching"
PARSING == "parsing"
EMBEDDING == "embedding"
SUMMARIZING == "summarizing"
OVERVIEW == "overview"
FINALIZING == "finalizing"
COMPLETED == "completed"

TaskStep ==
  <<QUEUED, FETCHING, PARSING, EMBEDDING, SUMMARIZING, OVERVIEW, FINALIZING, COMPLETED>>

\* Position of a step value in the order of the enum; 0 for a value that is
\* no member of it ("failed", or the step of a task that does not exist).
StepRank(s) ==
  IF \E i \in 1..Len(TaskStep) : TaskStep[i] = s
    THEN CHOOSE i \in 1..Len(TaskStep) : TaskStep[i] = s
    ELSE 0

VARIABLES
  \* ---- the ingestion run ----
  settings_env,    \* settings.env: "development" or "production"
  session,         \* the session document the worker finds: "absent", "no_prefs", "prefs"
  repoLookup,      \* whether get_repository(repo_id) finds the document when the worker reads it
  http,            \* status of add_repository's HTTP response, 0 while there is none
  task,            \* the task document
  repo,            \* the repository document
  pc,              \* position of add_repository / process_repository_files
  processed_count, \* local of process_repository_files
  batch_start,     \* loop variable i of the batch loop
  fan,             \* state of the three analysis fan-out coroutines
  post,            \* state of the two post-fan-out coroutines
  err,             \* str(e) of the exception the worker's except clause caught, or None
  stepTrace,       \* history: the values progress.current_step has taken, in order
  \* ---- one LLM content stream through the <think> filter ----
  text,            \* the content the LLM streams, as a sequence of characters
  fed,             \* number of characters of text received so far, in deltas
  fbuffer,         \* buffer
  finside,         \* inside_think_tag
  chunks,          \* answer_chunk events of the last delta (or of the final flush)
  emitted,         \* history: the positions of text emitted in answer_chunk events
  fpc,             \* "streaming", or "flushed" after the end of the stream
  \* ---- stream_query runs on one conversation ----
  q,               \* per run: position, locals and the events yielded so far
  messages,        \* the messages collection of the conversation, in insertion order
  message_count,   \* conversation.message_count
  \* ---- EmbeddingService._generate_embeddings_for_file, one class ----
  cls,             \* the class: line_start, line_end
  class_chunks,    \* chunks: the windows returned by _create_sliding_window_chunks
  chunk_i,         \* position of the loop over the windows (1-based)
  embeddings,      \* the embedding records appended so far
  epc,             \* "class", "chunks" or "done"
  \* ---- FileProcessingService._resolve_dependencies ----
  files,           \* the file documents of the repository, by path
  dependencies,    \* the map returned by resolve_all_dependencies
  todo,            \* the paths bulk_update_dependencies has still to update
  dpc,             \* "fetch", "update", "completed", "raised"
  \* ---- VectorSearchService.find_function ----
  fdocs,           \* the functions arrays of the file documents, by path
  find_name,       \* function_name, argument of the call
  find_path,       \* file_path, argument of the call: Nothing, or a path as the caller wrote it
  find_result,     \* the value returned: Nothing for None
  api_called,      \* the embedding API was called during the call
  find_raised,     \* a store or API call raised during the call
  findpc,          \* "regex", "vector" or "returned"
  \* ---- GitHubService.get_repository_tree and the files taken from the tree ----
  branch,          \* branch, argument of get_repository_tree
  tree_data,       \* data["tree"] of the response: the flat entries of the tree
  requested,       \* history: the branches requested, in order
  statuses,        \* history: the status of each response, 0 when the request raised
  file_tree,       \* the tree returned and stored on the repository document
  files_to_process,\* the file list the worker extracts from the stored tree
  file_docs,       \* the File documents created
  tpc,             \* "request", "retry", "response", "raised", "tree", "files", "stored"
  \* ---- one batch loop: the parse, embedding or summary stage ----
  stage,           \* "parse", "embedding" or "summary"
  stage_total,     \* total_files: the number of items of the stage
  item_state,      \* per item: "waiting", "running", "ok" or "failed"
  batch_i,         \* loop variable i
  counted,         \* processed_count / embedded_count / generated_count
  task_processed,  \* progress.task_processed of the task (parse stage)
  faulted,         \* history: the items whose own processing met a fault
  started,         \* history: per batch started, its items and task_processed then
  bpc,             \* "loop", "gather", "progress" or "done"
  \* ---- the tool-call deltas of one LLM stream (stream_query, one iteration) ----
  chunks_left,     \* chunks the stream has still to deliver
  received_deltas, \* history: the tool-call deltas received, in arrival order
  collected_calls, \* collected_tool_calls
  parsed_args,     \* per collected tool call, whether json.loads accepted its arguments
  cpc,             \* "streaming", "ended", "parsed" or "raised"
  \* ---- a class_chunk hit of VectorSearchService._vector_search ----
  file_classes,    \* classes of the file document, in the parser's order
  hit,             \* the embedding record the search matched
  hit_class,       \* history: the position in classes of the class the record was made from
  formatted_result,\* the formatted result: Nothing until the hit is formatted
  rpc,             \* "indexed", "hit", "formatted" or "unread"
  \* ---- the parsing of one file (parsers/python_parser.py, tree_sitter_parser.py) ----
  language,        \* "python" or "typescript"
  syntax_tree,     \* the syntax tree of the file's content
  parsed_data,     \* the dictionary returned by the parser: Nothing before
  parsed_doc,      \* functions and classes of the stored File document
  ppc,             \* "source", "parsed" or "saved"
  \* ---- the analyzer's responses (services/ai_service.py) ----
  response_kind,   \* "summary" or "overview"
  raw_content,     \* response.choices[0].message.content
  stored_text,     \* the summary of the File or the overview of the Repository: Nothing before
  apc,             \* "asked", "stored" or "skipped"
  \* ---- the message list of one stream_query run (query_service.py 299-496) ----
  llm_messages,    \* the list messages
  sent,            \* the list as the last LLM call was given it
  loop_iteration,  \* iteration of the loop of line 326
  loop_calls,      \* collected_tool_calls of the iteration
  loop_index,      \* position (from 1) of tool_call in collected_tool_calls
  loop_result,     \* tool_result of the tool call: Nothing before it returns
  steps,           \* what the run did for its tool calls, in order
  lpc,             \* where the run is
  \* ---- the File documents under the fan-out and post-fan-out coroutines ----
  fan_files,       \* the File documents of the repository: the fields the stages write
  deps_task,       \* _resolve_dependencies: where it is, the file it updates next
  emb_task,        \* _generate_embeddings: where it is, the files it read, those left, those skipped
  sum_task,        \* _generate_summaries: where it is, the files left, those skipped
  regen_task,      \* _regenerate_summary_embeddings: where it is, the files it read, those left
  worker_pc,       \* process_repository_files: "fanout", "except", "postfan", "complete", "returned"
  run_status,      \* status of the task document
  late_writes,     \* history: the coroutines that wrote a File document after a terminal status
  before_regen,    \* history: the File documents when the post-fan-out stage began
  regen_written,   \* history: the files the regeneration wrote
  \* ---- the raw-content requests of the parse stage ----
  content_requests, \* the branch and path of every raw-content URL requested
  \* ---- the File collection read by get_files_by_repo ----
  stored_count,    \* number of File documents of the repository (paths 1..stored_count)
  excluded_paths,  \* the stored paths that start with an excluded directory
  resolver_files,  \* the files given to DependencyResolver: Nothing before the read
  files_to_summarize, \* the summary candidates: Nothing before the read
  \* ---- search_code and the vector fallback of find_function ----
  sdocs,           \* the File documents searched: embeddings, summary embedding, lexical match
  summary_results, \* result of the summary search: Nothing before it returns
  code_results,    \* result of the code search: Nothing before it returns
  merged_results,  \* what search_code returns
  fallback_result, \* what the fallback of find_function returns
  spc              \* where the call is

ingestVars ==
  <<settings_env, session, repoLookup, http, task, repo, pc, processed_count,
    batch_start, fan, post, err, stepTrace>>

thinkVars == <<text, fed, fbuffer, finside, chunks, emitted, fpc>>

queryVars == <<q, messages, message_count>>

chunkVars == <<cls, class_chunks, chunk_i, embeddings, epc>>

\* the variables of the parts added after the query side
depVars == <<files, dependencies, todo, dpc>>

findVars == <<fdocs, find_name, find_path, find_result, api_called, find_raised, findpc>>

treeVars ==
  <<branch, tree_data, requested, statuses, file_tree, files_to_process,
    file_docs, tpc>>

\* the variables of the tree fetch and of the parts after it
batchVars ==
  <<stage, stage_total, item_state, batch_i, counted, task_processed, faulted, started, bpc>>

collectVars == <<chunks_left, received_deltas, collected_calls, parsed_args, cpc>>

hitVars == <<file_classes, hit, hit_class, formatted_result, rpc>>

parseVars == <<language, syntax_tree, parsed_data, parsed_doc, ppc>>

analyzeVars == <<response_kind, raw_content, stored_text, apc>>

loopVars == <<llm_messages, sent, loop_iteration, loop_calls, loop_index, loop_result, steps, lpc>>

fanVars ==
  <<fan_files, deps_task, emb_task, sum_task, regen_task, worker_pc, run_status, late_writes,
    before_regen, regen_written>>

fetchVars == <<content_requests>>

limitVars == <<stored_count, excluded_paths, resolver_files, files_to_summarize>>

searchVars == <<sdocs, summary_results, code_results, merged_results, fallback_result, spc>>

\* the last groups but the requests the tree section writes
otherVars == <<fanVars, limitVars, searchVars>>

lastVars == <<otherVars, fetchVars>>

\* the groups before lastVars
earlierVars ==
  <<ingestVars, thinkVars, queryVars, chunkVars, depVars, findVars, treeVars, batchVars,
    collectVars, hitVars, parseVars, analyzeVars, loopVars>>

laterVars ==
  <<treeVars, batchVars, collectVars, hitVars, parseVars, analyzeVars, loopVars, lastVars>>

restVars == <<chunkVars, depVars, findVars, laterVars>>

vars == <<ingestVars, thinkVars, queryVars, restVars>>

FanTasks == {"dependencies", "embeddings", "summaries"}
PostTasks == {"summary_embeddings", "overview"}

TotalFilesChoices ==
  {b * BATCH_SIZE + e : b \in 0..MaxBatches, e \in 0..MaxExtra}

NoTask ==
  [created |-> FALSE, status |-> None, current_step |-> None, total_files |-> 0,
   processed_files |-> 0, error_message |-> None]

NoRepo ==
  [created |-> FALSE, status |-> None, error_message |-> None, file_count |-> 0]

(***************************************************************************)
(* TaskService (services/task_service.py): each operation as the document  *)
(* it leaves.                                                              *)
(***************************************************************************)
create_task ==
  [created |-> TRUE, status |-> "pending", current_step |-> QUEUED, total_files |-> 0,
   processed_files |-> 0, error_message |-> None]

update_progress(t, processed_files, total_files, step) ==
  LET current_step ==
        IF step # None THEN step
        ELSE IF processed_files = 0 THEN PARSING
        ELSE IF processed_files >= total_files THEN EMBEDDING
        ELSE PARSING
  IN [t EXCEPT !.status = "in_progress", !.current_step = current_step,
               !.total_files = total_files, !.processed_files = processed_files]

update_step(t, step_description) ==
  [t EXCEPT !.current_step = step_description]

complete_task(t) ==
  [t EXCEPT !.status = "completed", !.current_step = COMPLETED]

\* A failure that also puts the task back at the head of the step sequence,
\* as a retry (attempts / max_attempts) would.
fail_task_requeues(t, error_message) ==
  [t EXCEPT !.status = "failed", !.error_message = error_message,
            !.current_step = QUEUED]

fail_task(t, error_message) ==
  [t EXCEPT !.status = "failed", !.error_message = error_message]

(***************************************************************************)
(* RepositoryService.update_status (services/repository_service.py).       *)
(***************************************************************************)
update_status(r, status, error_message) ==
  IF error_message # None
    THEN [r EXCEPT !.status = status, !.error_message = error_message]
    ELSE [r EXCEPT !.status = status]

\* The history of current_step after the task document became t.
Traced(t) ==
  IF stepTrace # <<>> /\ stepTrace[Len(stepTrace)] = t.current_step
    THEN stepTrace
    ELSE Append(stepTrace, t.current_step)

(***************************************************************************)
(* Preference resolution of process_repository_files, lines 57-85:         *)
(* "ok" when a provider and model are resolved, otherwise the message of   *)
(* the ValueError raised.                                                  *)
(***************************************************************************)
\* A resolution that falls back to the .env defaults in every environment.
resolve_preferences_always_fallback(sess, env) == "ok"

resolve_preferences(sess, env) ==
  IF sess = "absent"
    THEN IF env = "development" THEN "ok" ELSE "Session not found"
    ELSE IF sess = "prefs" THEN "ok"
         ELSE IF env = "development" THEN "ok" ELSE "Session preferences not set"

(***************************************************************************)
(* The three fan-out coroutines and the two post-fan-out coroutines, each  *)
(* as its outcome given whether the work it awaits raises: "ok", "caught"  *)
(* (logged, returns normally) or "raised" (propagates to the gather).      *)
(***************************************************************************)
_resolve_dependencies(work_raises) == IF work_raises THEN "raised" ELSE "ok"
_generate_embeddings(work_raises) == IF work_raises THEN "caught" ELSE "ok"
_generate_summaries(work_raises) == IF work_raises THEN "caught" ELSE "ok"
_regenerate_summary_embeddings(work_raises) == IF work_raises THEN "caught" ELSE "ok"
_generate_repository_overview(work_raises) == IF work_raises THEN "caught" ELSE "ok"

FanOutcome(t, work_raises) ==
  CASE t = "dependencies" -> _resolve_dependencies(work_raises)
    [] t = "embeddings" -> _generate_embeddings(work_raises)
    [] t = "summaries" -> _generate_summaries(work_raises)

PostOutcome(t, work_raises) ==
  CASE t = "summary_embeddings" -> _regenerate_summary_embeddings(work_raises)
    [] t = "overview" -> _generate_repository_overview(work_raises)

Finished == {"ok", "caught"}

\* The documents and locals before any request.
NoRun ==
  /\ http = 0
  /\ task = NoTask
  /\ repo = NoRepo
  /\ pc = "request"
  /\ processed_count = 0
  /\ batch_start = 0
  /\ fan = [t \in FanTasks |-> "idle"]
  /\ post = [t \in PostTasks |-> "idle"]
  /\ err = None
  /\ stepTrace = <<>>

IngestInit ==
  /\ settings_env \in {"development", "production"}
  /\ session \in {"absent", "no_prefs", "prefs"}
  /\ repoLookup \in BOOLEAN
  /\ NoRun

\* No ingestion is requested (the specifications of the query side).
IngestIdle ==
  /\ settings_env = "development"
  /\ session = "prefs"
  /\ repoLookup = TRUE
  /\ NoRun

(***************************************************************************)
(* RepositoryController.add_repository (controllers/repository.py 22-175). *)
(* Inputs: whether a credential is available (header, or .env in           *)
(* development), whether the URL parses, whether the metadata and the tree *)
(* fetch succeed, the number of files of the tree, and the store call that *)
(* raises, if any.                                                         *)
(***************************************************************************)
add_repository ==
  /\ pc = "request"
  /\ \E header_key \in BOOLEAN, env_key \in BOOLEAN, url_ok \in BOOLEAN,
        metadata_ok \in BOOLEAN, tree_ok \in BOOLEAN, n \in TotalFilesChoices,
        store_fault \in {"none", "create_repository", "create_task"} :
       LET api_key == header_key \/ (settings_env = "development" /\ env_key)
           file_count == IF tree_ok THEN n ELSE 0
           created == [NoRepo EXCEPT !.created = TRUE, !.status = "fetched",
                                     !.file_count = file_count]
       IN IF ~api_key \/ ~url_ok
            THEN /\ http' = 400
                 /\ pc' = "rejected"
                 /\ UNCHANGED <<task, repo, stepTrace>>
          ELSE IF ~metadata_ok
            THEN /\ http' = 404
                 /\ pc' = "rejected"
                 /\ UNCHANGED <<task, repo, stepTrace>>
          ELSE IF store_fault = "create_repository"
            THEN /\ http' = 500
                 /\ pc' = "rejected"
                 /\ UNCHANGED <<task, repo, stepTrace>>
          ELSE IF store_fault = "create_task"
            THEN /\ http' = 500
                 /\ pc' = "rejected"
                 /\ repo' = created
                 /\ UNCHANGED <<task, stepTrace>>
          ELSE /\ http' = 200
               /\ repo' = created
               /\ task' = create_task
               /\ stepTrace' = <<create_task.current_step>>
               /\ pc' = "start"
  /\ UNCHANGED <<settings_env, session, repoLookup, processed_count, batch_start,
                 fan, post, err, thinkVars, queryVars, restVars>>

(***************************************************************************)
(* FileProcessingService.process_repository_files                          *)
(* (services/file_processing_service.py 38-164), one action per await.     *)
(***************************************************************************)
Frame == UNCHANGED <<settings_env, session, repoLookup, http, thinkVars, queryVars, restVars>>

\* lines 57-102: session lookup, provider/model resolution, client set-up
LoadPreferences ==
  /\ pc = "start"
  /\ LET r == resolve_preferences(session, settings_env)
     IN IF r = "ok"
          THEN /\ pc' = "get_repo"
               /\ UNCHANGED err
          ELSE /\ pc' = "except"
               /\ err' = r
  /\ UNCHANGED <<task, repo, processed_count, batch_start, fan, post, stepTrace>>
  /\ Frame

\* lines 104-119: repository lookup and file list
GetRepository ==
  /\ pc = "get_repo"
  /\ IF ~repoLookup
       THEN /\ task' = fail_task(task, "Repository not found")
            /\ pc' = "returned"
       ELSE /\ pc' = IF repo.file_count = 0 THEN "empty_complete" ELSE "set_parsing"
            /\ UNCHANGED task
  /\ stepTrace' = Traced(task')
  /\ UNCHANGED <<repo, processed_count, batch_start, fan, post, err>>
  /\ Frame

\* line 117
CompleteEmpty ==
  /\ pc = "empty_complete"
  /\ task' = complete_task(task)
  /\ stepTrace' = Traced(task')
  /\ pc' = "final_status"
  /\ UNCHANGED <<repo, processed_count, batch_start, fan, post, err>>
  /\ Frame

\* line 122
SetParsing ==
  /\ pc = "set_parsing"
  /\ task' = update_progress(task, 0, repo.file_count, PARSING)
  /\ stepTrace' = Traced(task')
  /\ pc' = "set_processing"
  /\ UNCHANGED <<repo, processed_count, batch_start, fan, post, err>>
  /\ Frame

\* line 123
SetProcessing ==
  /\ pc = "set_processing"
  /\ repo' = update_status(repo, "processing", None)
  /\ pc' = "batch"
  /\ UNCHANGED <<task, processed_count, batch_start, fan, post, err, stepTrace>>
  /\ Frame

\* lines 129-134: one batch; _process_batch gathers with return_exceptions
ProcessBatch ==
  /\ pc = "batch"
  /\ IF batch_start < repo.file_count
       THEN LET len_batch ==
                  IF repo.file_count - batch_start < BATCH_SIZE
                    THEN repo.file_count - batch_start ELSE BATCH_SIZE
            IN /\ processed_count' = processed_count + len_batch
               /\ pc' = "batch_progress"
       ELSE /\ pc' = "set_embedding"
            /\ UNCHANGED processed_count
  /\ UNCHANGED <<task, repo, batch_start, fan, post, err, stepTrace>>
  /\ Frame

\* line 135
BatchProgress ==
  /\ pc = "batch_progress"
  /\ task' = update_progress(task, processed_count, repo.file_count, PARSING)
  /\ stepTrace' = Traced(task')
  /\ batch_start' = batch_start + BATCH_SIZE
  /\ pc' = "batch"
  /\ UNCHANGED <<repo, processed_count, fan, post, err>>
  /\ Frame

\* lines 139-141: the step update, then the three coroutines are started
SetEmbedding ==
  /\ pc = "set_embedding"
  /\ task' = update_step(task, EMBEDDING)
  /\ stepTrace' = Traced(task')
  /\ fan' = [t \in FanTasks |-> "running"]
  /\ pc' = "fanout"
  /\ UNCHANGED <<repo, processed_count, batch_start, post, err>>
  /\ Frame

\* lines 402-496: one fan-out coroutine ends. gather does not cancel the
\* others when one raises, so a coroutine runs on whatever the worker does.
FanTaskEnds(t) ==
  /\ fan[t] = "running"
  /\ \E work_raises \in BOOLEAN : fan' = [fan EXCEPT ![t] = FanOutcome(t, work_raises)]
  /\ UNCHANGED <<task, repo, pc, processed_count, batch_start, post, err, stepTrace>>
  /\ Frame

\* lines 141-145: the gather returns when all three have returned, and
\* raises as soon as one of them has raised
GatherFanout ==
  /\ pc = "fanout"
  /\ \/ /\ \E t \in FanTasks : fan[t] = "raised"
        /\ pc' = "except"
        /\ err' = "dependency resolution error"
     \/ /\ \A t \in FanTasks : fan[t] \in Finished
        /\ pc' = "set_overview"
        /\ UNCHANGED err
  /\ UNCHANGED <<task, repo, processed_count, batch_start, fan, post, stepTrace>>
  /\ Frame

\* lines 148-150
SetOverview ==
  /\ pc = "set_overview"
  /\ task' = update_step(task, OVERVIEW)
  /\ stepTrace' = Traced(task')
  /\ post' = [t \in PostTasks |-> "running"]
  /\ pc' = "postfan"
  /\ UNCHANGED <<repo, processed_count, batch_start, fan, err>>
  /\ Frame

\* lines 498-534
PostTaskEnds(t) ==
  /\ post[t] = "running"
  /\ \E work_raises \in BOOLEAN : post' = [post EXCEPT ![t] = PostOutcome(t, work_raises)]
  /\ UNCHANGED <<task, repo, pc, processed_count, batch_start, fan, err, stepTrace>>
  /\ Frame

\* lines 150-153: both coroutines catch every exception, so this gather
\* only ever returns
GatherPost ==
  /\ pc = "postfan"
  /\ \A t \in PostTasks : post[t] \in Finished
  /\ pc' = "set_finalizing"
  /\ UNCHANGED <<task, repo, processed_count, batch_start, fan, post, err, stepTrace>>
  /\ Frame

\* line 156
SetFinalizing ==
  /\ pc = "set_finalizing"
  /\ task' = update_step(task, FINALIZING)
  /\ stepTrace' = Traced(task')
  /\ pc' = "complete"
  /\ UNCHANGED <<repo, processed_count, batch_start, fan, post, err>>
  /\ Frame

\* line 157
CompleteTask ==
  /\ pc = "complete"
  /\ task' = complete_task(task)
  /\ stepTrace' = Traced(task')
  /\ pc' = "final_status"
  /\ UNCHANGED <<repo, processed_count, batch_start, fan, post, err>>
  /\ Frame

\* lines 118 and 158
FinalStatus ==
  /\ pc = "final_status"
  /\ repo' = update_status(repo, "completed", None)
  /\ pc' = "returned"
  /\ UNCHANGED <<task, processed_count, batch_start, fan, post, err, stepTrace>>
  /\ Frame

\* The awaits of the try body that call the store: any of them may raise.
StoreAwaits ==
  {"start", "get_repo", "empty_complete", "set_parsing", "set_processing",
   "batch_progress", "set_embedding", "set_overview", "set_finalizing", "complete",
   "final_status"}

StoreRaises ==
  /\ pc \in StoreAwaits
  /\ pc' = "except"
  /\ err' = "store error"
  /\ UNCHANGED <<task, repo, processed_count, batch_start, fan, post, stepTrace>>
  /\ Frame

\* line 163
ExceptFailTask ==
  /\ pc = "except"
  /\ task' = fail_task(task, err)
  /\ stepTrace' = Traced(task')
  /\ pc' = "except_status"
  /\ UNCHANGED <<repo, processed_count, batch_start, fan, post, err>>
  /\ Frame

\* line 164
ExceptRepoStatus ==
  /\ pc = "except_status"
  /\ repo' = update_status(repo, "failed", None)
  /\ pc' = "returned"
  /\ UNCHANGED <<task, processed_count, batch_start, fan, post, err, stepTrace>>
  /\ Frame

IngestNext ==
  \/ add_repository
  \/ LoadPreferences
  \/ GetRepository
  \/ CompleteEmpty
  \/ SetParsing
  \/ SetProcessing
  \/ ProcessBatch
  \/ BatchProgress
  \/ SetEmbedding
  \/ \E t \in FanTasks : FanTaskEnds(t)
  \/ GatherFanout
  \/ SetOverview
  \/ \E t \in PostTasks : PostTaskEnds(t)
  \/ GatherPost
  \/ SetFinalizing
  \/ CompleteTask
  \/ FinalStatus
  \/ StoreRaises
  \/ ExceptFailTask
  \/ ExceptRepoStatus

(***************************************************************************)
(* The on-the-fly <think> filter of QueryService.stream_query              *)
(* (services/query_service.py 344-426).  Text is a sequence of one-        *)
(* character strings.                                                      *)
(***************************************************************************)
OpenTag == <<"<", "t", "h", "i", "n", "k", ">">>         \* '<think>'
CloseTag == <<"<", "/", "t", "h", "i", "n", "k", ">">>   \* '</think>'

\* str.find: the 0-based index of the first occurrence of pat in str, or -1
Find(str, pat) ==
  LET hits == {i \in 0..(Len(str) - Len(pat)) :
                 \A j \in 1..Len(pat) : str[i + j] = pat[j]}
  IN IF hits = {} THEN -1 ELSE CHOOSE i \in hits : \A k \in hits : i <= k

\* the slices str[:n] and str[n:] for 0 <= n
Prefix(str, n) == SubSeq(str, 1, IF n < Len(str) THEN n ELSE Len(str))
From(str, n) == SubSeq(str, n + 1, Len(str))

\* The <think>...</think> regions of str from 0-based offset from on, as the
\* non-greedy pattern of _strip_think_tags (query_service.py line 93)
\* matches them: each opening tag with the first closing tag after it.
RECURSIVE ThinkRegions(_, _)
ThinkRegions(str, from) ==
  LET rest == From(str, from)
      o == Find(rest, OpenTag)
  IN IF o = -1 THEN {}
     ELSE LET c == Find(From(rest, o + Len(OpenTag)), CloseTag)
          IN IF c = -1 THEN {}
             ELSE LET close == from + o + Len(OpenTag) + c
                  IN {[open |-> from + o, close |-> close]}
                       \cup ThinkRegions(str, close + Len(CloseTag))

\* the positions (1-based) of a region, its two tags included
RegionPositions(str) ==
  UNION {(r.open + 1)..(r.close + Len(CloseTag)) : r \in ThinkRegions(str, 0)}

\* the positions strictly between an opening tag and its closing tag
BetweenTags(str) ==
  UNION {(r.open + Len(OpenTag) + 1)..r.close : r \in ThinkRegions(str, 0)}

\* the characters of str at the positions of P, in order
RECURSIVE Select(_, _, _)
Select(str, P, i) ==
  IF i > Len(str) THEN <<>>
  ELSE (IF i \in P THEN <<str[i]>> ELSE <<>>) \o Select(str, P, i + 1)

\* str with every <think>...</think> region removed
StripThink(str) == Select(str, (1..Len(str)) \ RegionPositions(str), 1)

\* A hold-back that is shorter than the opening tag.
HoldBackTooShort == Len(OpenTag) - 4

\* lines 376-383: the characters held back in case '<think>' is split
HoldBack == 7

\* lines 372 and 391: the characters dropped for a tag that was found
OpenTagSkip == 7
CloseTagSkip == 8

\* An answer_chunk event: its content, and (history) the position in the
\* streamed text of its first character.
Chunk(content, at) == [type |-> "answer_chunk", content |-> content, at |-> at]

\* lines 357-395: the loop run for one delta once it is appended to the
\* buffer.  base is the position in the streamed text of the character just
\* before buffer[1]; out collects the answer_chunk events yielded.
RECURSIVE FilterLoop(_, _, _, _)
FilterLoop(buffer, inside_think_tag, base, out) ==
  IF ~inside_think_tag
    THEN LET think_start == Find(buffer, OpenTag)
         IN IF think_start # -1
              THEN FilterLoop(From(buffer, think_start + OpenTagSkip), TRUE,
                              base + think_start + OpenTagSkip,
                              IF think_start > 0
                                THEN Append(out, Chunk(Prefix(buffer, think_start), base + 1))
                                ELSE out)
              ELSE IF Len(buffer) > HoldBack
                THEN [buffer |-> From(buffer, Len(buffer) - HoldBack),
                      inside_think_tag |-> FALSE,
                      out |-> Append(out, Chunk(Prefix(buffer, Len(buffer) - HoldBack),
                                                base + 1))]
                ELSE [buffer |-> buffer, inside_think_tag |-> FALSE, out |-> out]
    ELSE LET think_end == Find(buffer, CloseTag)
         IN IF think_end # -1
              THEN FilterLoop(From(buffer, think_end + CloseTagSkip), FALSE,
                              base + think_end + CloseTagSkip, out)
              ELSE [buffer |-> <<>>, inside_think_tag |-> TRUE, out |-> out]

\* lines 352-355: a content delta is appended to the buffer, then filtered
FilterDelta(buffer, inside_think_tag, base, delta) ==
  FilterLoop(buffer \o delta, inside_think_tag, base, <<>>)

\* lines 420-426: what is left in the buffer when the stream ends
FlushBuffer(buffer, inside_think_tag, base) ==
  IF buffer # <<>> /\ ~inside_think_tag THEN <<Chunk(buffer, base + 1)>> ELSE <<>>

\* The streamed texts of the model: up to MaxPieces pieces, each a plain
\* character, a lone '<', an opening tag or a closing tag.
Pieces == {<<"a">>, <<"<">>, OpenTag, CloseTag}

RECURSIVE TextsOf(_)
TextsOf(n) ==
  IF n = 0 THEN {<<>>}
  ELSE LET shorter == TextsOf(n - 1)
       IN shorter \cup {t \o p : t \in shorter, p \in Pieces}

Texts == TextsOf(MaxPieces)

\* positions at..at+Len(content)-1 of a chunk
PositionsOf(c) == {c.at + i : i \in 0..(Len(c.content) - 1)}

RECURSIVE AllPositions(_)
AllPositions(cs) ==
  IF cs = <<>> THEN {} ELSE PositionsOf(Head(cs)) \cup AllPositions(Tail(cs))

ThinkIdle ==
  /\ text = <<>>
  /\ fed = 0
  /\ fbuffer = <<>>
  /\ finside = FALSE
  /\ chunks = <<>>
  /\ emitted = {}
  /\ fpc = "idle"

ThinkInit ==
  /\ text \in Texts
  /\ fed = 0
  /\ fbuffer = <<>>
  /\ finside = FALSE
  /\ chunks = <<>>
  /\ emitted = {}
  /\ fpc = "streaming"

\* lines 348-395: the next delta, of any length, arrives
ReceiveDelta ==
  /\ fpc = "streaming"
  /\ \E n \in 1..(Len(text) - fed) :
       LET delta == SubSeq(text, fed + 1, fed + n)
           r == FilterDelta(fbuffer, finside, fed - Len(fbuffer), delta)
       IN /\ fed' = fed + n
          /\ fbuffer' = r.buffer
          /\ finside' = r.inside_think_tag
          /\ chunks' = r.out
          /\ emitted' = emitted \cup AllPositions(r.out)
  /\ UNCHANGED <<text, fpc, ingestVars, queryVars, restVars>>

\* lines 420-426: the stream ends
EndOfStream ==
  /\ fpc = "streaming"
  /\ fed = Len(text)
  /\ chunks' = FlushBuffer(fbuffer, finside, fed - Len(fbuffer))
  /\ emitted' = emitted \cup AllPositions(chunks')
  /\ fpc' = "flushed"
  /\ UNCHANGED <<text, fed, fbuffer, finside, ingestVars, queryVars, restVars>>

ThinkNext ==
  \/ ReceiveDelta
  \/ EndOfStream

(***************************************************************************)
(* QueryService.stream_query (services/query_service.py 209-570): an async *)
(* generator, one action per await or group of yields.  Several runs may   *)
(* work on the conversation of one (session_id, repo_id).                  *)
(***************************************************************************)
max_iterations == 5   \* line 325

\* An Optional value is a sequence of at most one element; Nothing is None.
Nothing == <<>>

Some(v) == <<v>>

Runs == 1..MaxRuns

\* line 555-558: the fallback answer
Apology == <<"I", " ", "a", "p", "o", "l", "o", "g", "i", "z", "e">>

Event(type) == [type |-> type]
ToolEvent(type, tool) == [type |-> type, tool |-> tool]
AnswerChunk(content) == [type |-> "answer_chunk", content |-> content]

\* lines 463-467
ToolResultEvent(tool, result_count) ==
  [type |-> "tool_result", tool |-> tool, result_count |-> result_count]

\* lines 546-550, 559-563
DoneEvent(sources, tool_calls) ==
  [type |-> "done", sources |-> sources, tool_calls |-> tool_calls]

\* the answer_chunk events of the chunks a filter step yields
RECURSIVE AsEvents(_)
AsEvents(cs) ==
  IF cs = <<>> THEN <<>> ELSE <<AnswerChunk(Head(cs).content)>> \o AsEvents(Tail(cs))

\* the concatenation of the contents of chunks
RECURSIVE Concat(_)
Concat(cs) == IF cs = <<>> THEN <<>> ELSE Head(cs).content \o Concat(Tail(cs))

(***************************************************************************)
(* MessageService and ConversationService are not among the sources; they  *)
(* are modelled from section 4.10 of the specification: the next sequence  *)
(* number is one more than the largest stored in the conversation, and     *)
(* create appends a message document.                                      *)
(***************************************************************************)
get_next_sequence_number(msgs) ==
  IF msgs = <<>> THEN 1
  ELSE 1 + (CHOOSE n \in {msgs[i].sequence_number : i \in 1..Len(msgs)} :
              \A i \in 1..Len(msgs) : msgs[i].sequence_number <= n)

create_message(msgs, role, sequence_number, tool_calls, run) ==
  Append(msgs, [role |-> role, sequence_number |-> sequence_number,
                tool_calls |-> tool_calls, run |-> run])

increment_message_count(count, increment) == count + increment

\* The conversation as earlier, finished exchanges left it: run 0 stands
\* for them.
RECURSIVE History(_)
History(n) ==
  IF n = 0 THEN <<>>
  ELSE LET h == History(n - 1)
       IN create_message(create_message(h, "user", 2 * n - 1, Nothing, 0),
                         "assistant", 2 * n, Nothing, 0)

(***************************************************************************)
(* The deltas of the LLM stream: a content delta, or one tool-call delta   *)
(* with an index and, each optional, an id, a name and a fragment of the   *)
(* arguments string.                                                       *)
(***************************************************************************)
PlainText == <<"a", "n", "s", "w", "e", "r", " ", "1">>

ContentDeltas == {PlainText, OpenTag, CloseTag}

\* The first delta of a tool call carries its id and name, the later ones a
\* fragment of its arguments.
ToolDeltas ==
  [index : 0..MaxToolIndex, id : {"call"}, name : {"search_code"}, arguments : {None}]
    \cup [index : 0..MaxToolIndex, id : {None}, name : {None}, arguments : {"{}"}]

\* A delta may also carry a whole tool call: id, name and arguments.
ToolNames == {"search_code", "get_file_by_path", "find_function"}

CompleteToolDeltas ==
  [index : {0}, id : {"call"}, name : ToolNames, arguments : {"{}"}]

\* lines 403-407: a tool call not yet filled in
EmptyToolCall == [id |-> "", name |-> "", arguments |-> <<>>]

\* lines 400-418: one tool-call delta merged into collected_tool_calls
RECURSIVE PadTo(_, _)
PadTo(calls, n) == IF Len(calls) >= n THEN calls ELSE PadTo(Append(calls, EmptyToolCall), n)

\* A merge that files the delta under the tool call opened last, whatever
\* its index.
CollectToolDeltaByArrival(collected_tool_calls, tc_delta) ==
  LET padded == PadTo(collected_tool_calls, tc_delta.index + 1)
      current_tc == padded[Len(padded)]
      updated ==
        [id |-> IF tc_delta.id # None THEN tc_delta.id ELSE current_tc.id,
         name |-> IF tc_delta.name # None THEN tc_delta.name ELSE current_tc.name,
         arguments |-> IF tc_delta.arguments # None
                         THEN Append(current_tc.arguments, tc_delta.arguments)
                         ELSE current_tc.arguments]
  IN [padded EXCEPT ![Len(padded)] = updated]

CollectToolDelta(collected_tool_calls, tc_delta) ==
  LET padded == PadTo(collected_tool_calls, tc_delta.index + 1)
      current_tc == padded[tc_delta.index + 1]
      updated ==
        [id |-> IF tc_delta.id # None THEN tc_delta.id ELSE current_tc.id,
         name |-> IF tc_delta.name # None THEN tc_delta.name ELSE current_tc.name,
         arguments |-> IF tc_delta.arguments # None
                         THEN Append(current_tc.arguments, tc_delta.arguments)
                         ELSE current_tc.arguments]
  IN [padded EXCEPT ![tc_delta.index + 1] = updated]

\* line 442: json.loads of the concatenated fragments succeeds
JsonLoads(arguments) == arguments \in {<<"{}">>, <<"{", "}">>}

\* An exception that ends the generator without an event.
OnExceptionSilent(events) == events

\* lines 565-570: the except clause yields the error event
OnException(events) == Append(events, Event("error"))

\* A fallback that ends the run without the apology.
OnMaxIterationsWithoutApology(events, sources, tool_calls_made) ==
  Append(events, DoneEvent(sources, tool_calls_made))

\* lines 553-563: the fallback after max_iterations iterations with tools
OnMaxIterations(events, sources, tool_calls_made) ==
  events \o <<AnswerChunk(Apology), DoneEvent(sources, tool_calls_made)>>

\* lines 545-551
OnFinalAnswer(events, sources, tool_calls_made) ==
  Append(events, DoneEvent(sources, tool_calls_made))

(***************************************************************************)
(* Tool results (_execute_tool, lines 572-625).  A result is a list of     *)
(* items or a single object; of an object only the keys path and file_path *)
(* matter to the caller.  What a tool returns depends on the index of the  *)
(* repository: nothing is found in an empty one.                           *)
(***************************************************************************)
ListResult(items) ==
  [kind |-> "list", items |-> items, path |-> Nothing, file_path |-> Nothing]

\* an object with neither key, such as {"error": ...}
ErrorResult ==
  [kind |-> "dict", items |-> <<>>, path |-> Nothing, file_path |-> Nothing]

\* vector_search_service.py 281-292: the record of get_file_by_path
FileRecord(path) ==
  [kind |-> "dict", items |-> <<>>, path |-> Some(path), file_path |-> Nothing]

\* vector_search_service.py 345-357, 780-792: the record of find_function
FunctionRecord(path) ==
  [kind |-> "dict", items |-> <<>>, path |-> Nothing, file_path |-> Some(path)]

\* vector_search_service.py 109-117: an entry of the merged search results
FileHit(path) == [file_path |-> Some(path), line_start |-> Nothing, line_end |-> Nothing]

_execute_tool(function_name, index) ==
  CASE function_name = "search_code" ->
         IF index = "empty" THEN {ListResult(<<>>)}
         ELSE {ListResult(<<FileHit(1)>>), ListResult(<<FileHit(1), FileHit(2)>>)}
    [] function_name = "get_file_by_path" ->
         IF index = "empty" THEN {ErrorResult} ELSE {FileRecord(1), ErrorResult}
    [] function_name = "find_function" ->
         IF index = "empty" THEN {ErrorResult} ELSE {FunctionRecord(1), ErrorResult}
    [] OTHER -> {ErrorResult}

\* line 460
ResultCount(tool_result) ==
  IF tool_result.kind = "list" THEN Len(tool_result.items) ELSE 1

\* lines 478-484: the items of a list that have a file_path
RECURSIVE ListSources(_)
ListSources(items) ==
  IF items = <<>> THEN <<>>
  ELSE (IF Head(items).file_path # Nothing
          THEN <<[file_path |-> Head(items).file_path[1],
                  line_start |-> Head(items).line_start,
                  line_end |-> Head(items).line_end]>>
          ELSE <<>>) \o ListSources(Tail(items))

\* lines 476-486
TrackSources(sources, tool_result) ==
  IF tool_result.kind = "list" THEN sources \o ListSources(tool_result.items)
  ELSE IF tool_result.path # Nothing
    THEN Append(sources, [file_path |-> tool_result.path[1],
                          line_start |-> Nothing, line_end |-> Nothing])
  ELSE sources

\* line 509: collected_tool_calls if collected_tool_calls else None
PersistedToolCalls(collected_tool_calls) ==
  IF collected_tool_calls # <<>> THEN Some(collected_tool_calls) ELSE Nothing

NoQuery ==
  [pc |-> "absent", events |-> <<>>, iteration |-> 0, buffer |-> <<>>,
   inside_think_tag |-> FALSE, full_answer |-> <<>>, collected_tool_calls |-> <<>>,
   tool_index |-> 0, user_sequence |-> 0, assistant_sequence |-> 0,
   raised |-> FALSE, content_left |-> 0, tool_left |-> 0,
   sources |-> <<>>, tool_calls_made |-> <<>>, llm_calls |-> 0, tool_results |-> <<>>,
   tool_deltas |-> {}, index |-> "empty"]

\* A call of stream_query: the LLM streams at most content_left content
\* deltas and tool_left tool-call deltas, the latter drawn from tool_deltas;
\* index is the state of the repository index the tools search.
NewQuery(profile) ==
  [NoQuery EXCEPT !.pc = "begin", !.content_left = profile.content_left,
                  !.tool_left = profile.tool_left,
                  !.tool_deltas = profile.tool_deltas,
                  !.index = profile.index]

QueryIdle ==
  /\ q = [r \in Runs |-> NoQuery]
  /\ messages = <<>>
  /\ message_count = 0

QFrame == UNCHANGED <<ingestVars, thinkVars, restVars>>

\* Of a run, besides the locals of the code: events is the sequence of events
\* yielded so far, llm_calls the number of streaming LLM calls issued,
\* tool_results the results the tools returned, raised whether an exception
\* reached the except clause.

\* lines 280-305: find_or_create, the recent messages, the context
LoadConversation(r) ==
  /\ q[r].pc = "begin"
  /\ q' = [q EXCEPT ![r].pc = "next_user_sequence"]
  /\ UNCHANGED <<messages, message_count>>
  /\ QFrame

\* line 308
NextUserSequence(r) ==
  /\ q[r].pc = "next_user_sequence"
  /\ q' = [q EXCEPT ![r].user_sequence = get_next_sequence_number(messages),
                    ![r].pc = "save_user"]
  /\ UNCHANGED <<messages, message_count>>
  /\ QFrame

\* lines 309-314
SaveUserMessage(r) ==
  /\ q[r].pc = "save_user"
  /\ messages' = create_message(messages, "user", q[r].user_sequence, Nothing, r)
  /\ q' = [q EXCEPT ![r].pc = "llm_call"]
  /\ UNCHANGED message_count
  /\ QFrame

\* lines 326-346: the next iteration calls the LLM and resets the locals
CallLLM(r) ==
  /\ q[r].pc = "llm_call"
  /\ q[r].iteration < max_iterations
  /\ q' = [q EXCEPT ![r].pc = "streaming", ![r].collected_tool_calls = <<>>,
                    ![r].buffer = <<>>, ![r].inside_think_tag = FALSE,
                    ![r].llm_calls = @ + 1]
  /\ UNCHANGED <<messages, message_count>>
  /\ QFrame

\* lines 553-563: the loop ran max_iterations times
MaxIterationsReached(r) ==
  /\ q[r].pc = "llm_call"
  /\ q[r].iteration >= max_iterations
  /\ q' = [q EXCEPT ![r].events = OnMaxIterations(@, q[r].sources, q[r].tool_calls_made),
                    ![r].pc = "finished"]
  /\ UNCHANGED <<messages, message_count>>
  /\ QFrame

\* lines 352-395: a content delta
ReceiveContent(r) ==
  /\ q[r].pc = "streaming"
  /\ q[r].content_left > 0
  /\ \E delta \in ContentDeltas :
       LET f == FilterDelta(q[r].buffer, q[r].inside_think_tag, 0, delta)
       IN q' = [q EXCEPT ![r].buffer = f.buffer,
                         ![r].inside_think_tag = f.inside_think_tag,
                         ![r].full_answer = @ \o Concat(f.out),
                         ![r].events = @ \o AsEvents(f.out),
                         ![r].content_left = @ - 1]
  /\ UNCHANGED <<messages, message_count>>
  /\ QFrame

\* lines 398-418: a tool-call delta
ReceiveToolCall(r) ==
  /\ q[r].pc = "streaming"
  /\ q[r].tool_left > 0
  /\ \E tc_delta \in q[r].tool_deltas :
       q' = [q EXCEPT ![r].collected_tool_calls = CollectToolDelta(@, tc_delta),
                      ![r].tool_left = @ - 1]
  /\ UNCHANGED <<messages, message_count>>
  /\ QFrame

\* lines 420-437, 498-499: the stream ends; the buffer is flushed
StreamEnds(r) ==
  /\ q[r].pc = "streaming"
  /\ LET flushed == FlushBuffer(q[r].buffer, q[r].inside_think_tag, 0)
     IN q' = [q EXCEPT ![r].full_answer = @ \o Concat(flushed),
                       ![r].events = @ \o AsEvents(flushed),
                       ![r].tool_index = 1,
                       ![r].pc = IF q[r].collected_tool_calls # <<>>
                                   THEN "tool_call" ELSE "final_answer"]
  /\ UNCHANGED <<messages, message_count>>
  /\ QFrame

\* lines 440-451: the arguments are parsed and the tool_call event yielded;
\* lines 495-496: after the last tool call the next iteration starts
NextToolCall(r) ==
  /\ q[r].pc = "tool_call"
  /\ IF q[r].tool_index > Len(q[r].collected_tool_calls)
       THEN q' = [q EXCEPT ![r].iteration = @ + 1, ![r].pc = "llm_call"]
       ELSE LET tool_call == q[r].collected_tool_calls[q[r].tool_index]
            IN IF JsonLoads(tool_call.arguments)
                 THEN q' = [q EXCEPT ![r].events =
                                       Append(@, ToolEvent("tool_call", tool_call.name)),
                                     ![r].pc = "execute_tool"]
                 ELSE q' = [q EXCEPT ![r].events = OnException(@),
                                     ![r].raised = TRUE,
                                     ![r].pc = "finished"]
  /\ UNCHANGED <<messages, message_count>>
  /\ QFrame

\* lines 453-493: the tool returns and the tool_result event is yielded
ToolReturns(r) ==
  /\ q[r].pc = "execute_tool"
  /\ LET tool_call == q[r].collected_tool_calls[q[r].tool_index]
     IN \E tool_result \in _execute_tool(tool_call.name, q[r].index) :
          q' = [q EXCEPT ![r].events =
                           Append(@, ToolResultEvent(tool_call.name, ResultCount(tool_result))),
                         ![r].tool_calls_made =
                           Append(@, [tool |-> tool_call.name,
                                      result_count |-> ResultCount(tool_result)]),
                         ![r].sources = TrackSources(@, tool_result),
                         ![r].tool_results = Append(@, tool_result),
                         ![r].tool_index = @ + 1,
                         ![r].pc = "tool_call"]
  /\ UNCHANGED <<messages, message_count>>
  /\ QFrame

\* lines 501-503: with an empty answer nothing is stored
FinalAnswer(r) ==
  /\ q[r].pc = "final_answer"
  /\ IF q[r].full_answer # <<>>
       THEN q' = [q EXCEPT ![r].assistant_sequence = get_next_sequence_number(messages),
                           ![r].pc = "save_assistant"]
       ELSE q' = [q EXCEPT ![r].events = OnFinalAnswer(@, q[r].sources, q[r].tool_calls_made),
                           ![r].pc = "finished"]
  /\ UNCHANGED <<messages, message_count>>
  /\ QFrame

\* lines 504-510
SaveAssistantMessage(r) ==
  /\ q[r].pc = "save_assistant"
  /\ messages' = create_message(messages, "assistant", q[r].assistant_sequence,
                                PersistedToolCalls(q[r].collected_tool_calls), r)
  /\ q' = [q EXCEPT ![r].pc = "increment_count"]
  /\ UNCHANGED message_count
  /\ QFrame

\* lines 512-551
CountAndDone(r) ==
  /\ q[r].pc = "increment_count"
  /\ message_count' = increment_message_count(message_count, 2)
  /\ q' = [q EXCEPT ![r].events = OnFinalAnswer(@, q[r].sources, q[r].tool_calls_made),
                    ![r].pc = "finished"]
  /\ UNCHANGED messages
  /\ QFrame

\* The awaits of the try body: the store, the LLM call and its stream, the
\* tool.  An exception raised by any of them is caught at line 565.
QueryAwaits ==
  {"begin", "next_user_sequence", "save_user", "streaming", "execute_tool",
   "save_assistant", "increment_count"}

AwaitRaises(r) ==
  /\ \/ q[r].pc \in QueryAwaits
     \/ q[r].pc = "llm_call" /\ q[r].iteration < max_iterations
     \/ q[r].pc = "final_answer" /\ q[r].full_answer # <<>>
  /\ q' = [q EXCEPT ![r].events = OnException(@), ![r].raised = TRUE,
                    ![r].pc = "finished"]
  /\ UNCHANGED <<messages, message_count>>
  /\ QFrame

QueryNext ==
  \E r \in Runs :
    \/ LoadConversation(r)
    \/ NextUserSequence(r)
    \/ SaveUserMessage(r)
    \/ CallLLM(r)
    \/ MaxIterationsReached(r)
    \/ ReceiveContent(r)
    \/ ReceiveToolCall(r)
    \/ StreamEnds(r)
    \/ NextToolCall(r)
    \/ ToolReturns(r)
    \/ FinalAnswer(r)
    \/ SaveAssistantMessage(r)
    \/ CountAndDone(r)
    \/ AwaitRaises(r)

(***************************************************************************)
(* EmbeddingService._generate_embeddings_for_file, the class branch        *)
(* (services/embedding_service.py 141-199) and                             *)
(* _create_sliding_window_chunks (268-295).                                *)
(***************************************************************************)
LARGE_CLASS == 800     \* line 145: class_size <= 800
CHUNK_SIZE == 700      \* line 180
OVERLAP == 100         \* line 181

Min(a, b) == IF a < b THEN a ELSE b

\* A step that ignores the overlap.
StepWithoutOverlap(chunk_size, overlap) == chunk_size

\* line 279
Step(chunk_size, overlap) == chunk_size - overlap

\* A window end that is not cut at the end of the class.
ChunkEndUnclamped(current, chunk_size, end_line) == current + chunk_size

\* line 282
ChunkEnd(current, chunk_size, end_line) == Min(current + chunk_size, end_line)

\* _extract_code_by_lines (263-266): lines[start_line-1:end_line], the lines
\* start_line .. end_line of the content, as line numbers
_extract_code_by_lines(start_line, end_line) == start_line .. end_line

\* lines 281-293: the while loop from position current
RECURSIVE SlidingLoop(_, _, _, _, _)
SlidingLoop(current, end_line, chunk_size, overlap, acc) ==
  IF ~(current < end_line) THEN acc
  ELSE LET chunk_end == ChunkEnd(current, chunk_size, end_line)
           appended == Append(acc, [start |-> current, end |-> chunk_end,
                                     code |-> _extract_code_by_lines(current, chunk_end)])
       IN IF chunk_end >= end_line
            THEN appended
            ELSE SlidingLoop(current + Step(chunk_size, overlap), end_line,
                             chunk_size, overlap, appended)

_create_sliding_window_chunks(start_line, end_line, chunk_size, overlap) ==
  SlidingLoop(start_line, end_line, chunk_size, overlap, <<>>)

\* lines 185-195
ClassChunkRecord(chunk, i, total) ==
  [type |-> "class_chunk", line_start |-> chunk.start, line_end |-> chunk.end,
   code |-> chunk.code, chunk_index |-> i, total_chunks |-> total]

\* lines 159-167
ClassRecord(c) ==
  [type |-> "class", line_start |-> c.line_start, line_end |-> c.line_end,
   code |-> _extract_code_by_lines(c.line_start, c.line_end)]

LineStarts == {1, 10}

Classes == [line_start : LineStarts, span : 1..MaxSpan]

ChunkIdle ==
  /\ cls = [line_start |-> 1, line_end |-> 1]
  /\ class_chunks = <<>>
  /\ chunk_i = 0
  /\ embeddings = <<>>
  /\ epc = "done"

ChunkInit ==
  /\ \E c \in Classes : cls = [line_start |-> c.line_start, line_end |-> c.line_start + c.span]
  /\ class_chunks = <<>>
  /\ chunk_i = 0
  /\ embeddings = <<>>
  /\ epc = "class"

ChunkFrame == UNCHANGED <<ingestVars, thinkVars, queryVars, depVars, findVars, laterVars>>

\* lines 143-167: a class of at most 800 lines is embedded whole; the record
\* is appended unless _encode_text raises or returns nothing
EmbedSmallClass ==
  /\ epc = "class"
  /\ cls.line_end - cls.line_start <= LARGE_CLASS
  /\ \E encoded \in BOOLEAN :
       embeddings' = IF encoded THEN Append(embeddings, ClassRecord(cls)) ELSE embeddings
  /\ epc' = "done"
  /\ UNCHANGED <<cls, class_chunks, chunk_i>>
  /\ ChunkFrame

\* lines 172-181: a larger class is cut into windows
ChunkLargeClass ==
  /\ epc = "class"
  /\ cls.line_end - cls.line_start > LARGE_CLASS
  /\ class_chunks' = _create_sliding_window_chunks(cls.line_start, cls.line_end,
                                            CHUNK_SIZE, OVERLAP)
  /\ chunk_i' = 1
  /\ epc' = "chunks"
  /\ UNCHANGED <<cls, embeddings>>
  /\ ChunkFrame

\* lines 183-199: one window is encoded; its record is appended unless
\* _encode_text raises or returns nothing
EmbedChunk ==
  /\ epc = "chunks"
  /\ chunk_i <= Len(class_chunks)
  /\ \E encoded \in BOOLEAN :
       embeddings' =
         IF encoded
           THEN Append(embeddings, ClassChunkRecord(class_chunks[chunk_i], chunk_i, Len(class_chunks)))
           ELSE embeddings
  /\ chunk_i' = chunk_i + 1
  /\ UNCHANGED <<cls, class_chunks, epc>>
  /\ ChunkFrame

\* line 183: the loop over the windows ends
ChunksDone ==
  /\ epc = "chunks"
  /\ chunk_i > Len(class_chunks)
  /\ epc' = "done"
  /\ UNCHANGED <<cls, class_chunks, chunk_i, embeddings>>
  /\ ChunkFrame

ChunkNext ==
  \/ EmbedSmallClass
  \/ ChunkLargeClass
  \/ EmbedChunk
  \/ ChunksDone

(***************************************************************************)
(* FileProcessingService._resolve_dependencies                             *)
(* (services/file_processing_service.py 402-458) and                       *)
(* FileService.bulk_update_dependencies (services/file_service.py 290-321).*)
(***************************************************************************)
FILES_LIMIT == 1000    \* file_service.py line 102: limit = 1000

Paths == 1..MaxFiles

External == MaxFiles + 1   \* an import that names no path of the repository

\* file_service.py 64-68: a new file document has no dependencies
NoDependencies == [imports |-> {}, imported_by |-> {}, external_imports |-> {}]

\* get_files_by_repo (file_service.py 102-119): at most limit documents, the
\* first of the collection (find(...).limit(limit), no sort)
get_files_by_repo(docs, limit) ==
  IF Cardinality(DOMAIN docs) <= limit THEN DOMAIN docs
  ELSE {p \in DOMAIN docs : Cardinality({other \in DOMAIN docs : other < p}) < limit}

(***************************************************************************)
(* DependencyResolver is not among the sources; resolve_all_dependencies   *)
(* is modelled from section 4.3 of the specification: an import is         *)
(* internal when it maps to a path of the file set and external otherwise, *)
(* and every resolved pair (source, target) adds the source to the         *)
(* imported_by of the target.                                              *)
(***************************************************************************)
resolve_all_dependencies(docs, known) ==
  [path \in known |->
     [imports |-> docs[path].raw_imports \cap known,
      imported_by |-> {source \in known : path \in docs[source].raw_imports},
      external_imports |-> docs[path].raw_imports \ known]]

\* An update that stores the forward edges and leaves imported_by as it was.
DependencyUpdateForwardOnly(doc, deps) ==
  [doc EXCEPT !.dependencies.imports = deps.imports,
              !.dependencies.external_imports = deps.external_imports]

\* file_service.py 307-317: the $set of one update_one
DependencyUpdate(doc, deps) ==
  [doc EXCEPT !.dependencies.imports = deps.imports,
              !.dependencies.imported_by = deps.imported_by,
              !.dependencies.external_imports = deps.external_imports]

DepIdle ==
  /\ files = <<>>
  /\ dependencies = <<>>
  /\ todo = {}
  /\ dpc = "completed"

\* The parsed files of a repository: any set of paths, each with the imports
\* its parser found.
DepInit ==
  /\ \E present \in SUBSET Paths :
       files \in [present -> [raw_imports : SUBSET (Paths \cup {External}),
                             dependencies : {NoDependencies}]]
  /\ dependencies = <<>>
  /\ todo = {}
  /\ dpc = "fetch"

DepFrame == UNCHANGED <<ingestVars, thinkVars, queryVars, chunkVars, findVars, laterVars>>

\* lines 424-429, 431-434: the files are fetched and resolved; with no file
\* the stage returns at once
ResolveDependencies ==
  /\ dpc = "fetch"
  /\ LET known == get_files_by_repo(files, FILES_LIMIT)
     IN IF known = {}
          THEN /\ dpc' = "completed"
               /\ UNCHANGED <<dependencies, todo>>
          ELSE /\ dependencies' = resolve_all_dependencies(files, known)
               /\ todo' = known
               /\ dpc' = "update"
  /\ UNCHANGED files
  /\ DepFrame

\* file_service.py 306-319: one update_one of the loop over the map
UpdateOneFile ==
  /\ dpc = "update"
  /\ \E updated_path \in todo :
       /\ files' = [files EXCEPT ![updated_path] = DependencyUpdate(@, dependencies[updated_path])]
       /\ todo' = todo \ {updated_path}
  /\ UNCHANGED <<dependencies, dpc>>
  /\ DepFrame

\* file_service.py 321, lines 438-455: the loop is over and the stage returns
UpdatesDone ==
  /\ dpc = "update"
  /\ todo = {}
  /\ dpc' = "completed"
  /\ UNCHANGED <<files, dependencies, todo>>
  /\ DepFrame

\* lines 456-458: a store call raises; the stage logs and re-raises
DependenciesRaise ==
  /\ \/ dpc = "fetch"
     \/ dpc = "update" /\ todo # {}
  /\ dpc' = "raised"
  /\ UNCHANGED <<files, dependencies, todo>>
  /\ DepFrame

DepNext ==
  \/ ResolveDependencies
  \/ UpdateOneFile
  \/ UpdatesDone
  \/ DependenciesRaise

(***************************************************************************)
(* VectorSearchService.find_function                                       *)
(* (services/vector_search_service.py 298-364) and _regex_search_function  *)
(* (732-794).                                                              *)
(***************************************************************************)
\* the entries a functions array may hold: name and line range
FunctionEntries ==
  {[name |-> "validateToken", line_start |-> 1, line_end |-> 3],
   [name |-> "validate", line_start |-> 5, line_end |-> 9]}

FunctionNames == {f.name : f \in FunctionEntries}

\* line 764: file_path.lstrip('/')
lstrip_slash(path) == [path EXCEPT !.leading_slash = FALSE]

\* lines 781-792: the record built from a file and one of its functions
FunctionResult(path, func) ==
  [file_path |-> path, embedding_type |-> "function", name |-> func.name,
   code |-> _extract_code_by_lines(func.line_start, func.line_end),
   line_start |-> func.line_start, line_end |-> func.line_end]

\* lines 758-768: the files the query matches
RegexQuery(docs, name, path) ==
  {p \in DOMAIN docs :
     /\ \E func \in docs[p] : func.name = name
     /\ path # Nothing =>
          lstrip_slash(path[1]) = [leading_slash |-> FALSE, path |-> p]}

\* lines 756-794: the results find_one and the loop over the functions of the
\* file can give; the empty set when no file matches
_regex_search_function(docs, name, path) ==
  UNION {{FunctionResult(p, func) : func \in {g \in docs[p] : g.name = name}} :
           p \in RegexQuery(docs, name, path)}

\* lines 331-355: what the vector search can give: the best-scoring function
\* of the repository, whatever its name, or nothing
VectorSearchResults(docs) ==
  {Nothing} \cup UNION {{Some(FunctionResult(p, func)) : func \in docs[p]} : p \in DOMAIN docs}

RequestPaths ==
  {Nothing} \cup {Some(path) : path \in [leading_slash : BOOLEAN, path : Paths]}

FindIdle ==
  /\ fdocs = <<>>
  /\ find_name = None
  /\ find_path = Nothing
  /\ find_result = Nothing
  /\ api_called = FALSE
  /\ find_raised = FALSE
  /\ findpc = "returned"

FindInit ==
  /\ fdocs \in [Paths -> SUBSET FunctionEntries]
  /\ find_name \in FunctionNames
  /\ find_path \in RequestPaths
  /\ find_result = Nothing
  /\ api_called = FALSE
  /\ find_raised = FALSE
  /\ findpc = "regex"

FindFrame == UNCHANGED <<ingestVars, thinkVars, queryVars, chunkVars, depVars, laterVars>>

\* lines 318-323: the exact search; its result, if any, is returned
RegexSearch ==
  /\ findpc = "regex"
  /\ LET found == _regex_search_function(fdocs, find_name, find_path)
     IN IF found # {}
          THEN /\ \E result \in found : find_result' = Some(result)
               /\ findpc' = "returned"
          ELSE /\ findpc' = "vector"
               /\ UNCHANGED find_result
  /\ UNCHANGED <<fdocs, find_name, find_path, api_called, find_raised>>
  /\ FindFrame

\* lines 325-358: the fallback; search_code encodes the query with the
\* embedding API (line 68)
VectorSearch ==
  /\ findpc = "vector"
  /\ api_called' = TRUE
  /\ \E result \in VectorSearchResults(fdocs) : find_result' = result
  /\ findpc' = "returned"
  /\ UNCHANGED <<fdocs, find_name, find_path, find_raised>>
  /\ FindFrame

\* lines 360-362: an exception of the store is caught and None returned
FindRaises ==
  /\ findpc = "regex"
  /\ find_raised' = TRUE
  /\ find_result' = Nothing
  /\ findpc' = "returned"
  /\ UNCHANGED <<fdocs, find_name, find_path, api_called>>
  /\ FindFrame

FindNext ==
  \/ RegexSearch
  \/ VectorSearch
  \/ FindRaises

(***************************************************************************)
(* GitHubService.get_repository_tree, build_nested_tree and                *)
(* should_ignore_path (services/github_service.py 71-238), and the file    *)
(* list the worker takes from the stored tree                              *)
(* (FileProcessingService._extract_files_from_tree, 166-210).  A path is a *)
(* sequence of one-character strings.                                      *)
(***************************************************************************)
MAX_FILE_SIZE == 100000   \* github_service.py:134

\* lines 172-200
ignore_patterns ==
  {<<"n", "o", "d", "e", "_", "m", "o", "d", "u", "l", "e", "s", "/">>,
   <<"_", "_", "p", "y", "c", "a", "c", "h", "e", "_", "_", "/">>,
   <<".", "p", "y", "t", "e", "s", "t", "_", "c", "a", "c", "h", "e", "/">>,
   <<".", "m", "y", "p", "y", "_", "c", "a", "c", "h", "e", "/">>,
   <<"v", "e", "n", "v", "/">>,
   <<"e", "n", "v", "/">>,
   <<".", "e", "n", "v", "/">>,
   <<"d", "i", "s", "t", "/">>,
   <<"b", "u", "i", "l", "d", "/">>,
   <<".", "n", "e", "x", "t", "/">>,
   <<".", "n", "u", "x", "t", "/">>,
   <<"o", "u", "t", "/">>,
   <<"t", "a", "r", "g", "e", "t", "/">>,
   <<"b", "i", "n", "/">>,
   <<"o", "b", "j", "/">>,
   <<".", "g", "i", "t", "/">>,
   <<".", "s", "v", "n", "/">>,
   <<".", "h", "g", "/">>,
   <<"v", "e", "n", "d", "o", "r", "/">>,
   <<"b", "o", "w", "e", "r", "_", "c", "o", "m", "p", "o", "n", "e", "n", "t", "s", "/">>,
   <<"c", "o", "v", "e", "r", "a", "g", "e", "/">>,
   <<".", "c", "a", "c", "h", "e", "/">>,
   <<"t", "m", "p", "/">>,
   <<"t", "e", "m", "p", "/">>,
   <<".", "i", "d", "e", "a", "/">>,
   <<".", "v", "s", "c", "o", "d", "e", "/">>,
   <<".", "D", "S", "_", "S", "t", "o", "r", "e">>}

\* lines 208-220
ignore_extensions ==
  {<<".", "p", "y", "c">>,
   <<".", "p", "y", "o">>,
   <<".", "p", "y", "d">>,
   <<".", "c", "l", "a", "s", "s">>,
   <<".", "j", "a", "r">>,
   <<".", "o">>,
   <<".", "s", "o">>,
   <<".", "d", "y", "l", "i", "b">>,
   <<".", "d", "l", "l">>,
   <<".", "e", "x", "e">>,
   <<".", "b", "i", "n">>,
   <<".", "j", "p", "g">>,
   <<".", "j", "p", "e", "g">>,
   <<".", "p", "n", "g">>,
   <<".", "g", "i", "f">>,
   <<".", "s", "v", "g">>,
   <<".", "i", "c", "o">>,
   <<".", "m", "p", "4">>,
   <<".", "m", "o", "v">>,
   <<".", "a", "v", "i">>,
   <<".", "m", "p", "3">>,
   <<".", "w", "a", "v">>,
   <<".", "p", "d", "f">>,
   <<".", "d", "o", "c">>,
   <<".", "d", "o", "c", "x">>,
   <<".", "z", "i", "p">>,
   <<".", "t", "a", "r">>,
   <<".", "g", "z">>,
   <<".", "r", "a", "r">>,
   <<".", "w", "o", "f", "f">>,
   <<".", "w", "o", "f", "f", "2">>,
   <<".", "t", "t", "f">>,
   <<".", "e", "o", "t">>,
   <<".", "l", "o", "c", "k">>}

\* lines 229-235: the hidden files that are kept
hidden_allowed ==
  {<<".", "e", "n", "v", ".", "e", "x", "a", "m", "p", "l", "e">>,
   <<".", "g", "i", "t", "i", "g", "n", "o", "r", "e">>,
   <<".", "e", "s", "l", "i", "n", "t", "r", "c", ".", "j", "s", "o", "n">>,
   <<".", "p", "r", "e", "t", "t", "i", "e", "r", "r", "c">>,
   <<".", "b", "a", "b", "e", "l", "r", "c">>}

\* 'pat in str', str.endswith(suffix), str.startswith(prefix)
Contains(str, pat) == Find(str, pat) # -1
EndsWith(str, suffix) ==
  /\ Len(suffix) <= Len(str)
  /\ SubSeq(str, Len(str) - Len(suffix) + 1, Len(str)) = suffix
StartsWith(str, prefix) ==
  /\ Len(prefix) <= Len(str)
  /\ SubSeq(str, 1, Len(prefix)) = prefix

\* path.split('/')
RECURSIVE Split(_)
Split(path) ==
  LET i == Find(path, <<"/">>)
  IN IF i = -1 THEN <<path>> ELSE <<Prefix(path, i)>> \o Split(From(path, i + 1))

\* lines 161-238
should_ignore_path(path) ==
  LET filename == Split(path)[Len(Split(path))]
  IN \/ \E pattern \in ignore_patterns : Contains(path, pattern)
     \/ \E ext \in ignore_extensions : EndsWith(path, ext)
     \/ StartsWith(filename, <<".">>) /\ filename \notin hidden_allowed

\* lines 144-149: the leaf build_nested_tree stores for a blob
Leaf(item) == [type |-> "file", path |-> item.path, size |-> item.size]

\* lines 120-159.  The nested dictionary is represented by its leaves in
\* insertion order; the folder a leaf hangs under is read back from its path.
RECURSIVE build_nested_tree(_)
build_nested_tree(github_files) ==
  IF github_files = <<>> THEN <<>>
  ELSE LET item == Head(github_files)
           rest == build_nested_tree(Tail(github_files))
       IN IF item.type # "blob" THEN rest
          ELSE IF should_ignore_path(item.path) THEN rest
          ELSE IF item.size > MAX_FILE_SIZE THEN rest
          ELSE <<Leaf(item)>> \o rest

\* file_processing_service.py 192-210: the traversal visits the keys of each
\* dictionary in insertion order and descends into a folder where it meets it
RECURSIVE traverse(_, _)
traverse(leaves, depth) ==
  IF leaves = <<>> THEN <<>>
  ELSE LET key == Split(leaves[1].path)[depth + 1]
           under(l) == Split(l.path)[depth + 1] = key
           apart(l) == Split(l.path)[depth + 1] # key
           here == IF Len(Split(leaves[1].path)) = depth + 1
                     THEN <<[path |-> leaves[1].path, size |-> leaves[1].size]>>
                     ELSE traverse(SelectSeq(leaves, under), depth + 1)
       IN here \o traverse(SelectSeq(leaves, apart), depth)

_extract_files_from_tree(tree) == traverse(tree, 0)

\* github_service.py 97: the condition of the second request
RetriesAnyBranch(status_code, requested_branch) == status_code = 404

RetriesMaster(status_code, requested_branch) ==
  status_code = 404 /\ requested_branch = "main"

\* The tree responses explored: entries under a denylisted folder (bin/), under
\* a folder whose name ends like one (cabin/), under a plain folder and at top
\* level; source, object, hidden and allowlisted hidden file names; sizes at
\* and just over the limit.
Folders == {<<"b", "i", "n">>, <<"c", "a", "b", "i", "n">>, <<"s", "r", "c">>}

FileNames ==
  {<<"a", ".", "p", "y">>, <<"a", ".", "o">>, <<".", "x">>,
   <<".", "g", "i", "t", "i", "g", "n", "o", "r", "e">>,
   <<".", "D", "S", "_", "S", "t", "o", "r", "e">>}

TreePaths == FileNames \cup {d \o <<"/">> \o f : d \in Folders, f \in FileNames}

TreeItems ==
  [type : {"blob"}, path : TreePaths, size : {MAX_FILE_SIZE, MAX_FILE_SIZE + 1}]
    \cup [type : {"tree"}, path : Folders, size : {0}]

TreeResponses ==
  {<<>>} \cup {<<a>> : a \in TreeItems}
         \cup {ab \in TreeItems \X TreeItems : ab[1].path # ab[2].path}

\* HTTP outcomes of a tree request; 0 stands for client.get raising
TreeStatuses == {0, 200, 404, 500}

Branches == {"main", "master", "dev"}

TreeIdle ==
  /\ branch = "main"
  /\ tree_data = <<>>
  /\ requested = <<>>
  /\ statuses = <<>>
  /\ file_tree = <<>>
  /\ files_to_process = <<>>
  /\ file_docs = {}
  /\ tpc = "request"

TreeInit ==
  /\ branch \in Branches
  /\ tree_data \in TreeResponses
  /\ requested = <<>>
  /\ statuses = <<>>
  /\ file_tree = <<>>
  /\ files_to_process = <<>>
  /\ file_docs = {}
  /\ tpc = "request"

TreeFrame ==
  UNCHANGED <<ingestVars, thinkVars, queryVars, chunkVars, depVars, findVars, batchVars,
              collectVars, hitVars, parseVars,
              analyzeVars, loopVars,
              otherVars>>

\* lines 91-94: the request for the branch asked for
TreeRequest ==
  /\ tpc = "request"
  /\ \E status_code \in TreeStatuses :
       /\ requested' = <<branch>>
       /\ statuses' = <<status_code>>
       /\ tpc' = IF status_code = 0 THEN "raised"
                 ELSE IF RetriesMaster(status_code, branch) THEN "retry"
                 ELSE "response"
  /\ UNCHANGED <<branch, tree_data, file_tree, files_to_process, file_docs, content_requests>>
  /\ TreeFrame

\* lines 98-99: the second request, for master
TreeRetry ==
  /\ tpc = "retry"
  /\ \E status_code \in TreeStatuses :
       /\ requested' = Append(requested, "master")
       /\ statuses' = Append(statuses, status_code)
       /\ tpc' = IF status_code = 0 THEN "raised" ELSE "response"
  /\ UNCHANGED <<branch, tree_data, file_tree, files_to_process, file_docs, content_requests>>
  /\ TreeFrame

\* lines 101-107: raise_for_status, then the tree is built from the response
TreeResponse ==
  /\ tpc = "response"
  /\ IF statuses[Len(statuses)] >= 400
       THEN /\ tpc' = "raised"
            /\ UNCHANGED file_tree
       ELSE /\ file_tree' = build_nested_tree(tree_data)
            /\ tpc' = "tree"
  /\ UNCHANGED <<branch, tree_data, requested, statuses, files_to_process, file_docs, content_requests>>
  /\ TreeFrame

\* file_processing_service.py 111-113: the worker lists the files of the
\* stored tree
ExtractFiles ==
  /\ tpc = "tree"
  /\ files_to_process' = _extract_files_from_tree(file_tree)
  /\ tpc' = "files"
  /\ UNCHANGED <<branch, tree_data, requested, statuses, file_tree, file_docs, content_requests>>
  /\ TreeFrame

\* file_processing_service.py 129-135, 283-337: the files are processed (here
\* fewer than one batch); those whose processing fails leave no document.
\* The content of each is asked for at the raw URL of the default_branch of
\* the repository document (lines 133, 292, 362).
StoreFiles ==
  /\ tpc = "files"
  /\ \E failed \in SUBSET {files_to_process[i].path : i \in 1..Len(files_to_process)} :
       file_docs' = {[path |-> files_to_process[i].path,
                      size_bytes |-> files_to_process[i].size] :
                       i \in {j \in 1..Len(files_to_process) :
                                files_to_process[j].path \notin failed}}
  /\ content_requests' = {[branch |-> branch, path |-> files_to_process[i].path] :
                            i \in 1..Len(files_to_process)}
  /\ tpc' = "stored"
  /\ UNCHANGED <<branch, tree_data, requested, statuses, file_tree, files_to_process>>
  /\ TreeFrame

TreeNext ==
  \/ TreeRequest
  \/ TreeRetry
  \/ TreeResponse
  \/ ExtractFiles
  \/ StoreFiles

(***************************************************************************)
(* The three batch loops of a run: the parse stage                         *)
(* (file_processing_service.py 125-136 with _process_batch 238-253), the   *)
(* embedding stage (embedding_service.py 84-105) and the summary stage     *)
(* (ai_service.py 120-140).  Each gathers the coroutines of one batch with *)
(* return_exceptions=True and goes on to the next batch when the gather    *)
(* returns.                                                                *)
(***************************************************************************)
EMBEDDING_BATCH_SIZE == 8   \* embedding_service.py:85
SUMMARY_BATCH_SIZE == 5     \* ai_service.py:121

Stages == {"parse", "embedding", "summary"}

StageBatchSize(s) ==
  IF s = "parse" THEN BATCH_SIZE
  ELSE IF s = "embedding" THEN EMBEDDING_BATCH_SIZE
  ELSE SUMMARY_BATCH_SIZE

\* the numbers of items explored for a stage
StageTotals(s) ==
  {b * StageBatchSize(s) + extra : b \in 0..MaxBatches, extra \in 0..MaxExtra}

\* batch = items[i:i + BATCH_SIZE], for a slice one item longer and as it is
BatchOneLonger(i, batch_size, total_files) ==
  (i + 1)..Min(i + batch_size + 1, total_files)

Batch(i, batch_size, total_files) == (i + 1)..Min(i + batch_size, total_files)

\* What can go wrong with one item: the fetch of its content, the decoding,
\* the parser, the store (parse stage); the API call or the store (embedding
\* and summary stages).
ItemFaults == {"none", "fetch", "decode", "parse", "api", "store"}

\* _process_single_file (file_processing_service.py 283-337),
\* _generate_embeddings_for_file (embedding_service.py 130-261) and
\* _generate_summary_for_file (ai_service.py 165-250): every exception is
\* caught inside the coroutine, which returns without a document written
CoroutineOutcome(fault) == IF fault = "none" THEN "ok" ELSE "failed"

\* asyncio.gather(*tasks, return_exceptions=True): the outcome of one
\* coroutine is recorded for it alone; and a gather in which it ends the
\* other coroutines of the batch
FinishItemCancelsBatch(states, item, outcome) ==
  [k \in DOMAIN states |->
     IF k = item THEN outcome
     ELSE IF outcome = "failed" /\ states[k] = "running" THEN "failed"
     ELSE states[k]]

FinishItem(states, item, outcome) == [states EXCEPT ![item] = outcome]

\* the items of a batch whose coroutines are followed one by one; the
\* others end together, successfully
FollowedItems(i, batch_size, total_files) ==
  (i + 1)..Min(i + MaxFollowed, Min(i + batch_size, total_files))

BatchIdle ==
  /\ stage = "parse"
  /\ stage_total = 0
  /\ item_state = <<>>
  /\ batch_i = 0
  /\ counted = 0
  /\ task_processed = 0
  /\ faulted = {}
  /\ started = <<>>
  /\ bpc = "loop"

BatchInit ==
  /\ stage \in Stages
  /\ stage_total \in StageTotals(stage)
  /\ item_state = [k \in 1..stage_total |-> "waiting"]
  /\ batch_i = 0
  /\ counted = 0
  /\ task_processed = 0
  /\ faulted = {}
  /\ started = <<>>
  /\ bpc = "loop"

BatchFrame ==
  UNCHANGED <<ingestVars, thinkVars, queryVars, chunkVars, depVars, findVars, treeVars,
              collectVars, hitVars, parseVars,
              analyzeVars, loopVars,
              lastVars>>

\* the batch is sliced and the gather creates one task per item
StartBatch ==
  /\ bpc = "loop"
  /\ batch_i < stage_total
  /\ LET batch == Batch(batch_i, StageBatchSize(stage), stage_total)
     IN /\ item_state' = [k \in 1..stage_total |->
                            IF k \in batch THEN "running" ELSE item_state[k]]
        /\ started' = Append(started, [batch |-> batch, task_processed |-> task_processed])
  /\ bpc' = "gather"
  /\ UNCHANGED <<stage, stage_total, batch_i, counted, task_processed, faulted>>
  /\ BatchFrame

\* one coroutine of the batch ends, with its result or its failure
ItemEnds(item) ==
  /\ bpc = "gather"
  /\ item \in FollowedItems(batch_i, StageBatchSize(stage), stage_total)
  /\ item_state[item] = "running"
  /\ \E fault \in ItemFaults :
       /\ item_state' = FinishItem(item_state, item, CoroutineOutcome(fault))
       /\ faulted' = IF fault = "none" THEN faulted ELSE faulted \cup {item}
  /\ UNCHANGED <<stage, stage_total, batch_i, counted, task_processed, started, bpc>>
  /\ BatchFrame

\* the coroutines that are not followed one by one end
OthersEnd ==
  /\ bpc = "gather"
  /\ LET batch == Batch(batch_i, StageBatchSize(stage), stage_total)
         followed == FollowedItems(batch_i, StageBatchSize(stage), stage_total)
     IN /\ \E k \in batch : k \notin followed /\ item_state[k] = "running"
        /\ item_state' = [k \in 1..stage_total |->
                            IF k \in batch /\ k \notin followed /\ item_state[k] = "running"
                              THEN "ok" ELSE item_state[k]]
  /\ UNCHANGED <<stage, stage_total, batch_i, counted, task_processed, faulted, started, bpc>>
  /\ BatchFrame

\* A loop whose parse stage counts, as the other stages do, only the files
\* that were stored.
GatherReturnsCountsStored ==
  /\ bpc = "gather"
  /\ LET batch == Batch(batch_i, StageBatchSize(stage), stage_total)
     IN /\ \A k \in batch : item_state[k] # "running"
        /\ counted' = counted + Cardinality({k \in batch : item_state[k] = "ok"})
        /\ IF stage = "parse"
             THEN bpc' = "progress" /\ UNCHANGED batch_i
             ELSE batch_i' = batch_i + StageBatchSize(stage) /\ bpc' = "loop"
  /\ UNCHANGED <<stage, stage_total, item_state, task_processed, faulted, started>>
  /\ BatchFrame

\* the gather returns when every coroutine of the batch has ended; the parse
\* stage counts the batch (line 134), the other stages count the successes
\* and go on to the next batch
GatherReturns ==
  /\ bpc = "gather"
  /\ LET batch == Batch(batch_i, StageBatchSize(stage), stage_total)
     IN /\ \A k \in batch : item_state[k] # "running"
        /\ IF stage = "parse"
             THEN /\ counted' = counted + Cardinality(batch)
                  /\ bpc' = "progress"
                  /\ UNCHANGED batch_i
             ELSE /\ counted' = counted + Cardinality({k \in batch : item_state[k] = "ok"})
                  /\ batch_i' = batch_i + StageBatchSize(stage)
                  /\ bpc' = "loop"
  /\ UNCHANGED <<stage, stage_total, item_state, task_processed, faulted, started>>
  /\ BatchFrame

\* file_processing_service.py 135: update_progress after the batch
UpdateProgress ==
  /\ bpc = "progress"
  /\ task_processed' = counted
  /\ batch_i' = batch_i + StageBatchSize(stage)
  /\ bpc' = "loop"
  /\ UNCHANGED <<stage, stage_total, item_state, counted, faulted, started>>
  /\ BatchFrame

\* the range of the loop is exhausted
BatchesDone ==
  /\ bpc = "loop"
  /\ batch_i >= stage_total
  /\ bpc' = "done"
  /\ UNCHANGED <<stage, stage_total, item_state, batch_i, counted, task_processed, faulted, started>>
  /\ BatchFrame

BatchNext ==
  \/ StartBatch
  \/ \E item \in 1..stage_total : ItemEnds(item)
  \/ OthersEnd
  \/ GatherReturns
  \/ UpdateProgress
  \/ BatchesDone

(***************************************************************************)
(* The tool-call deltas of one LLM stream: their collection while the      *)
(* stream lasts (query_service.py 397-418) and the parsing of the          *)
(* arguments once it has ended (428-443).  A chunk carries one or two      *)
(* tool-call deltas; a delta has an index (-1 for None), and an id and a   *)
(* name, or a fragment of the arguments.                                   *)
(***************************************************************************)
Fragments == {"{", "}"}

StreamedToolDeltas ==
  [index : 0..MaxToolIndex, id : {"call"}, name : {"search_code"}, arguments : {None}]
    \cup [index : (-1)..MaxToolIndex, id : {None}, name : {None}, arguments : Fragments]

StreamedChunks ==
  {<<d>> : d \in StreamedToolDeltas} \cup (StreamedToolDeltas \X StreamedToolDeltas)

\* lines 398-418: the deltas of one chunk, merged in order; a delta without
\* an index is passed over
RECURSIVE CollectChunk(_, _)
CollectChunk(collected_tool_calls, tool_calls) ==
  IF tool_calls = <<>> THEN collected_tool_calls
  ELSE LET tc_delta == Head(tool_calls)
       IN CollectChunk(IF tc_delta.index >= 0
                         THEN CollectToolDelta(collected_tool_calls, tc_delta)
                         ELSE collected_tool_calls,
                       Tail(tool_calls))

CollectIdle ==
  /\ chunks_left = 0
  /\ received_deltas = <<>>
  /\ collected_calls = <<>>
  /\ parsed_args = <<>>
  /\ cpc = "streaming"

CollectInit ==
  /\ chunks_left = MaxChunks
  /\ received_deltas = <<>>
  /\ collected_calls = <<>>
  /\ parsed_args = <<>>
  /\ cpc = "streaming"

CollectFrame ==
  UNCHANGED <<ingestVars, thinkVars, queryVars, chunkVars, depVars, findVars, treeVars,
              batchVars, hitVars, parseVars,
              analyzeVars, loopVars,
              lastVars>>

\* one chunk of the stream with tool-call deltas
ReceiveChunk ==
  /\ cpc = "streaming"
  /\ chunks_left > 0
  /\ \E tool_calls \in StreamedChunks :
       /\ collected_calls' = CollectChunk(collected_calls, tool_calls)
       /\ received_deltas' = received_deltas \o tool_calls
  /\ chunks_left' = chunks_left - 1
  /\ UNCHANGED <<parsed_args, cpc>>
  /\ CollectFrame

\* the async for is exhausted
ToolStreamEnds ==
  /\ cpc = "streaming"
  /\ cpc' = "ended"
  /\ UNCHANGED <<chunks_left, received_deltas, collected_calls, parsed_args>>
  /\ CollectFrame

\* lines 429-443: the arguments of the collected tool calls go through
\* json.loads, which raises on the first that is not JSON
ParseArguments ==
  /\ cpc = "ended"
  /\ parsed_args' = [i \in 1..Len(collected_calls) |->
                       JsonLoads(collected_calls[i].arguments)]
  /\ cpc' = IF \A i \in 1..Len(collected_calls) : JsonLoads(collected_calls[i].arguments)
              THEN "parsed" ELSE "raised"
  /\ UNCHANGED <<chunks_left, received_deltas, collected_calls>>
  /\ CollectFrame

CollectNext ==
  \/ ReceiveChunk
  \/ ToolStreamEnds
  \/ ParseArguments

(***************************************************************************)
(* A class hit of the code search: the embedding records of the classes of *)
(* a file (embedding_service.py 142-199), and the result formatted for a   *)
(* record the search matched, with the full class read back for a          *)
(* class_chunk (vector_search_service.py 578-617, 665-730).  The content   *)
(* of the file is the same at both times; a text is the set of its lines.  *)
(***************************************************************************)
\* embedding_service.py 143-199: the records of one class, each with the name
\* it carries (name for a class, parent_class for a window of a large class)
ClassEmbeddings(c) ==
  IF c.line_end - c.line_start <= LARGE_CLASS
    THEN {ClassRecord(c) @@ [name |-> c.name]}
    ELSE LET windows == _create_sliding_window_chunks(c.line_start, c.line_end,
                                                       CHUNK_SIZE, OVERLAP)
         IN {ClassChunkRecord(windows[i], i, Len(windows)) @@ [parent_class |-> c.name] :
               i \in 1..Len(windows)}

\* vector_search_service.py 693-724: the first class of the file with the
\* name, and its lines; None when no class has the name
_reconstruct_full_class(classes, parent_class) ==
  LET named == {k \in 1..Len(classes) : classes[k].name = parent_class}
  IN IF named = {} THEN Nothing
     ELSE LET target_class == classes[CHOOSE k \in named : \A j \in named : k <= j]
          IN Some([code |-> _extract_code_by_lines(target_class.line_start,
                                                    target_class.line_end),
                   line_start |-> target_class.line_start,
                   line_end |-> target_class.line_end])

\* vector_search_service.py 578-617
FormatResult(embedding, full_class_code) ==
  IF embedding.type = "class_chunk" /\ full_class_code # Nothing
    THEN [embedding_type |-> embedding.type, code |-> full_class_code[1].code,
          chunk_code |-> Some(embedding.code),
          full_class_line_start |-> Some(full_class_code[1].line_start),
          full_class_line_end |-> Some(full_class_code[1].line_end)]
    ELSE [embedding_type |-> embedding.type, code |-> embedding.code,
          chunk_code |-> Nothing, full_class_line_start |-> Nothing,
          full_class_line_end |-> Nothing]

\* The files explored: one or two classes, one after the other, named alike
\* or not, each small or large enough to be cut into two or three windows.
ClassNames == {"Engine", "Parser"}

ClassSpans == {MaxSmallSpan, LARGE_CLASS + 1, LARGE_CLASS + CHUNK_SIZE}

ClassLists ==
  {<<[name |-> n1, line_start |-> 1, line_end |-> 1 + s1]>> :
     n1 \in ClassNames, s1 \in ClassSpans}
  \cup
  {<<[name |-> n[1], line_start |-> 1, line_end |-> 1 + sp[1]],
     [name |-> n[2], line_start |-> 2 + sp[1], line_end |-> 2 + sp[1] + sp[2]]>> :
     n \in ClassNames \X ClassNames, sp \in ClassSpans \X ClassSpans}

NoHit == [type |-> None]

HitIdle ==
  /\ file_classes = <<>>
  /\ hit = NoHit
  /\ hit_class = 0
  /\ formatted_result = Nothing
  /\ rpc = "indexed"

HitInit ==
  /\ file_classes \in ClassLists
  /\ hit = NoHit
  /\ hit_class = 0
  /\ formatted_result = Nothing
  /\ rpc = "indexed"

HitFrame ==
  UNCHANGED <<ingestVars, thinkVars, queryVars, chunkVars, depVars, findVars, treeVars,
              batchVars, collectVars, parseVars,
              analyzeVars, loopVars,
              lastVars>>

\* lines 500-560: the search matches one embedding record of the file
SearchMatches ==
  /\ rpc = "indexed"
  /\ \E k \in 1..Len(file_classes) :
       \E embedding \in ClassEmbeddings(file_classes[k]) :
         /\ hit' = embedding
         /\ hit_class' = k
  /\ rpc' = "hit"
  /\ UNCHANGED <<file_classes, formatted_result>>
  /\ HitFrame

\* lines 578-617: the result is formatted; for a class_chunk the class is read
\* back from the file document
FormatHit ==
  /\ rpc = "hit"
  /\ LET full_class_code ==
           IF hit.type = "class_chunk"
             THEN _reconstruct_full_class(file_classes, hit.parent_class)
             ELSE Nothing
     IN formatted_result' = Some(FormatResult(hit, full_class_code))
  /\ rpc' = "formatted"
  /\ UNCHANGED <<file_classes, hit, hit_class>>
  /\ HitFrame

\* lines 686-689, 728-730: the read of the file document finds nothing or
\* raises; _reconstruct_full_class returns None and the result keeps the chunk
FormatHitUnread ==
  /\ rpc = "hit"
  /\ hit.type = "class_chunk"
  /\ formatted_result' = Some(FormatResult(hit, Nothing))
  /\ rpc' = "unread"
  /\ UNCHANGED <<file_classes, hit, hit_class>>
  /\ HitFrame

HitNext ==
  \/ SearchMatches
  \/ FormatHit
  \/ FormatHitUnread

(***************************************************************************)
(* The parsers: PythonParser._extract_classes and _extract_functions       *)
(* (parsers/python_parser.py 54-162) and TreeSitterParser._traverse_classes *)
(* and _traverse_functions (parsers/tree_sitter_parser.py 282-372), on the *)
(* syntax tree of a file.  A node has a type, a name, its first and last   *)
(* line and its children (for ast nodes, their body).                      *)
(***************************************************************************)
Node(type, name, line_start, line_end, children) ==
  [type |-> type, name |-> name, line_start |-> line_start, line_end |-> line_end,
   children |-> children]

\* ast.walk: breadth first
RECURSIVE walk(_)
walk(queue) ==
  IF queue = <<>> THEN <<>>
  ELSE <<Head(queue)>> \o walk(Tail(queue) \o Head(queue).children)

IsFunctionDef(node) == node.type \in {"FunctionDef", "AsyncFunctionDef"}
IsClassDef(node) == node.type = "ClassDef"

\* tree_sitter_parser.py 303-312, 352-373: the node types of typescript
function_types == {"function_declaration", "method_definition", "arrow_function"}
class_types == {"class_declaration", "interface_declaration"}
method_types == {"method_definition", "method_signature"}
body_types == {"class_body", "declaration_list", "field_declaration_list"}

IsFunctionNode(node) == node.type \in function_types
IsClassNode(node) == node.type \in class_types
IsMethodNode(node) == node.type \in method_types
IsBodyNode(node) == node.type \in body_types

\* the recursive traversals of the tree-sitter parser: depth first, a node
\* before its children
RECURSIVE FunctionNodes(_)
FunctionNodes(nodes) ==
  IF nodes = <<>> THEN <<>>
  ELSE (IF IsFunctionNode(Head(nodes)) THEN <<Head(nodes)>> ELSE <<>>)
         \o FunctionNodes(Head(nodes).children) \o FunctionNodes(Tail(nodes))

RECURSIVE ClassNodes(_)
ClassNodes(nodes) ==
  IF nodes = <<>> THEN <<>>
  ELSE (IF IsClassNode(Head(nodes)) THEN <<Head(nodes)>> ELSE <<>>)
         \o ClassNodes(Head(nodes).children) \o ClassNodes(Tail(nodes))

\* the children of the body nodes of a class node
RECURSIVE BodyChildren(_)
BodyChildren(children) ==
  IF children = <<>> THEN <<>>
  ELSE (IF IsBodyNode(Head(children)) THEN Head(children).children ELSE <<>>)
         \o BodyChildren(Tail(children))

\* python_parser.py 135-147, tree_sitter_parser.py 381-388: a nested method
MethodInfo(item) ==
  [name |-> item.name, line_start |-> item.line_start, line_end |-> item.line_end]

ClassInfo(node, method_nodes) ==
  [name |-> node.name, line_start |-> node.line_start, line_end |-> node.line_end,
   methods |-> [i \in 1..Len(method_nodes) |-> MethodInfo(method_nodes[i])]]

\* python_parser.py 119-162: every ClassDef of the walk, with the function
\* definitions of its own body as methods
_extract_classes(tree) ==
  LET nodes == SelectSeq(walk(<<tree>>), IsClassDef)
  IN [i \in 1..Len(nodes) |->
        ClassInfo(nodes[i], SelectSeq(nodes[i].children, IsFunctionDef))]

\* tree_sitter_parser.py 344-402
_extract_classes_ts(root_node) ==
  LET nodes == ClassNodes(<<root_node>>)
  IN [i \in 1..Len(nodes) |->
        ClassInfo(nodes[i], SelectSeq(BodyChildren(nodes[i].children), IsMethodNode))]

\* class_ranges.get(line): the dictionary is filled class after class, so a
\* line of several classes keeps the name of the last of them
class_ranges(classes, line) ==
  LET covering == {k \in 1..Len(classes) :
                     classes[k].line_start <= line /\ line <= classes[k].line_end}
  IN IF covering = {} THEN None
     ELSE classes[CHOOSE k \in covering : \A j \in covering : j <= k].name

\* python_parser.py 92-105, tree_sitter_parser.py 326-335
FunctionInfo(node, classes) ==
  [name |-> node.name, line_start |-> node.line_start, line_end |-> node.line_end,
   parent_class |-> class_ranges(classes, node.line_start),
   is_method |-> class_ranges(classes, node.line_start) # None]

\* python_parser.py 54-105: every function definition of the walk
_extract_functions(tree, classes) ==
  LET nodes == SelectSeq(walk(<<tree>>), IsFunctionDef)
  IN [i \in 1..Len(nodes) |-> FunctionInfo(nodes[i], classes)]

\* tree_sitter_parser.py 282-342
_extract_functions_ts(root_node, classes) ==
  LET nodes == FunctionNodes(<<root_node>>)
  IN [i \in 1..Len(nodes) |-> FunctionInfo(nodes[i], classes)]

\* python_parser.py 36-51 and tree_sitter_parser.py 234-247: classes first,
\* then the functions
parse(lang, tree) ==
  IF lang = "python"
    THEN LET classes == _extract_classes(tree)
         IN [functions |-> _extract_functions(tree, classes), classes |-> classes]
    ELSE LET classes == _extract_classes_ts(tree)
         IN [functions |-> _extract_functions_ts(tree, classes), classes |-> classes]

\* The sources explored: one or two top-level definitions, the second
\* ShapeLines lines below the first.  Python: a function, a function with a
\* function inside, a class with two methods, a class whose method defines a
\* function, a class with a nested class, an empty class.
PythonShapes(o) ==
  {Node("FunctionDef", "run", o + 1, o + 2, <<>>),
   Node("FunctionDef", "run", o + 1, o + 4,
        <<Node("FunctionDef", "helper", o + 2, o + 3, <<>>)>>),
   Node("ClassDef", "Engine", o + 1, o + 5,
        <<Node("FunctionDef", "start", o + 2, o + 3, <<>>),
          Node("AsyncFunctionDef", "stop", o + 4, o + 5, <<>>)>>),
   Node("ClassDef", "Engine", o + 1, o + 6,
        <<Node("FunctionDef", "start", o + 2, o + 5,
               <<Node("FunctionDef", "inner", o + 3, o + 4, <<>>)>>)>>),
   Node("ClassDef", "Engine", o + 1, o + 8,
        <<Node("ClassDef", "Meta", o + 2, o + 4,
               <<Node("FunctionDef", "label", o + 3, o + 4, <<>>)>>),
          Node("FunctionDef", "start", o + 5, o + 6, <<>>)>>),
   Node("ClassDef", "Config", o + 1, o + 2, <<>>)}

\* TypeScript: a function, a class with two methods, a class whose method
\* holds an arrow function, an empty class.
TypeScriptShapes(o) ==
  {Node("function_declaration", "run", o + 1, o + 2, <<>>),
   Node("class_declaration", "Engine", o + 1, o + 6,
        <<Node("class_body", "", o + 1, o + 6,
               <<Node("method_definition", "start", o + 2, o + 3, <<>>),
                 Node("method_definition", "stop", o + 4, o + 5, <<>>)>>)>>),
   Node("class_declaration", "Engine", o + 1, o + 6,
        <<Node("class_body", "", o + 1, o + 6,
               <<Node("method_definition", "start", o + 2, o + 5,
                      <<Node("statement_block", "", o + 2, o + 5,
                             <<Node("arrow_function", "", o + 3, o + 4, <<>>)>>)>>)>>)>>),
   Node("class_declaration", "Config", o + 1, o + 2,
        <<Node("class_body", "", o + 1, o + 2, <<>>)>>)}

Shapes(lang, o) == IF lang = "python" THEN PythonShapes(o) ELSE TypeScriptShapes(o)

RootType(lang) == IF lang = "python" THEN "Module" ELSE "program"

SyntaxTrees(lang) ==
  {Node(RootType(lang), "", 1, ShapeLines, <<a>>) : a \in Shapes(lang, 0)}
    \cup {Node(RootType(lang), "", 1, 2 * ShapeLines, <<ab[1], ab[2]>>) :
            ab \in Shapes(lang, 0) \X Shapes(lang, ShapeLines)}

NoParsedDoc == [functions |-> <<>>, classes |-> <<>>, parsed |-> FALSE]

ParseIdle ==
  /\ language = "python"
  /\ syntax_tree = Node("Module", "", 1, 1, <<>>)
  /\ parsed_data = Nothing
  /\ parsed_doc = NoParsedDoc
  /\ ppc = "saved"

ParseInit ==
  /\ language \in {"python", "typescript"}
  /\ syntax_tree \in SyntaxTrees(language)
  /\ parsed_data = Nothing
  /\ parsed_doc = NoParsedDoc
  /\ ppc = "source"

ParseFrame ==
  UNCHANGED <<ingestVars, thinkVars, queryVars, chunkVars, depVars, findVars, treeVars,
              batchVars, collectVars, hitVars,
              analyzeVars, loopVars,
              lastVars>>

\* file_processing_service.py 304-306: parser_factory.parse_file
ParseFile ==
  /\ ppc = "source"
  /\ parsed_data' = Some(parse(language, syntax_tree))
  /\ ppc' = "parsed"
  /\ UNCHANGED <<language, syntax_tree, parsed_doc>>
  /\ ParseFrame

\* file_processing_service.py 313-334: create_file, then update_parsed_data
\* when the parser found a function or a class (file_service.py 145-153)
SaveParsedData ==
  /\ ppc = "parsed"
  /\ parsed_doc' =
       IF parsed_data[1].functions # <<>> \/ parsed_data[1].classes # <<>>
         THEN [functions |-> parsed_data[1].functions,
               classes |-> parsed_data[1].classes, parsed |-> TRUE]
         ELSE NoParsedDoc
  /\ ppc' = "saved"
  /\ UNCHANGED <<language, syntax_tree, parsed_data>>
  /\ ParseFrame

ParseNext ==
  \/ ParseFile
  \/ SaveParsedData

(***************************************************************************)
(* The analyzer's responses: strip_thinking_content (utils/text_utils.py   *)
(* 8-34), the per-file summary (services/ai_service.py 233-246) and the    *)
(* repository overview (ai_service.py 442-450, file_processing_service.py  *)
(* 528-530).  The whitespace of the texts explored is the newline.         *)
(***************************************************************************)
IsSpace(c) == c = "\n"

\* str.strip()
RECURSIVE lstrip(_)
lstrip(str) ==
  IF str # <<>> /\ IsSpace(Head(str)) THEN lstrip(Tail(str)) ELSE str

RECURSIVE rstrip(_)
rstrip(str) ==
  IF str # <<>> /\ IsSpace(str[Len(str)]) THEN rstrip(SubSeq(str, 1, Len(str) - 1)) ELSE str

strip(str) == lstrip(rstrip(str))

\* re.sub(r'\n\s*\n\s*\n+', '\n\n', cleaned): a run of three newlines or
\* more becomes two
RECURSIVE CollapseBlankLines(_, _)
CollapseBlankLines(str, run) ==
  IF str = <<>> THEN <<>>
  ELSE IF IsSpace(Head(str))
         THEN (IF run < 2 THEN <<Head(str)>> ELSE <<>>)
                \o CollapseBlankLines(Tail(str), run + 1)
         ELSE <<Head(str)>> \o CollapseBlankLines(Tail(str), 0)

\* text_utils.py 27-34
strip_thinking_content(str) == strip(CollapseBlankLines(StripThink(str), 0))

\* FileService.update_summary and RepositoryService.save_overview: the text
\* given becomes the summary of the File, the overview of the Repository
update_summary(summary) == Some(summary)
save_overview(overview) == Some(overview)

\* the responses explored: up to MaxResponsePieces pieces
ResponsePieces == {<<"a">>, <<"\n">>, OpenTag, CloseTag}

RECURSIVE ResponsesOf(_)
ResponsesOf(n) ==
  IF n = 0 THEN {<<>>}
  ELSE LET shorter == ResponsesOf(n - 1)
       IN shorter \cup {t \o p : t \in shorter, p \in ResponsePieces}

Responses == ResponsesOf(MaxResponsePieces)

AnalyzeIdle ==
  /\ response_kind = "summary"
  /\ raw_content = <<>>
  /\ stored_text = Nothing
  /\ apc = "skipped"

AnalyzeInit ==
  /\ response_kind \in {"summary", "overview"}
  /\ raw_content \in Responses
  /\ stored_text = Nothing
  /\ apc = "asked"

AnalyzeFrame ==
  UNCHANGED <<ingestVars, thinkVars, queryVars, chunkVars, depVars, findVars, treeVars,
              batchVars, collectVars, hitVars, parseVars,
              loopVars,
              lastVars>>

\* ai_service.py 233-236 and 443-445: a response without content
EmptyResponse ==
  /\ apc = "asked"
  /\ raw_content = <<>>
  /\ apc' = "skipped"
  /\ UNCHANGED <<response_kind, raw_content, stored_text>>
  /\ AnalyzeFrame

\* ai_service.py 238-246: the summary of a file
StoreSummary ==
  /\ apc = "asked"
  /\ response_kind = "summary"
  /\ raw_content # <<>>
  /\ stored_text' = update_summary(strip_thinking_content(strip(raw_content)))
  /\ apc' = "stored"
  /\ UNCHANGED <<response_kind, raw_content>>
  /\ AnalyzeFrame

\* ai_service.py 447-450 and file_processing_service.py 528-530: the
\* overview is the stripped content, saved unless it is empty
StoreOverview ==
  /\ apc = "asked"
  /\ response_kind = "overview"
  /\ raw_content # <<>>
  /\ LET overview == strip(raw_content)
     IN IF overview # <<>>
          THEN stored_text' = save_overview(overview) /\ apc' = "stored"
          ELSE stored_text' = stored_text /\ apc' = "skipped"
  /\ UNCHANGED <<response_kind, raw_content>>
  /\ AnalyzeFrame

AnalyzeNext ==
  \/ EmptyResponse
  \/ StoreSummary
  \/ StoreOverview

(***************************************************************************)
(* The message list of a stream_query run: built at lines 299-304, given   *)
(* to the LLM at line 329, extended by the tool branch (lines 428-496).    *)
(* The yields are steps of their own: the generator is suspended at each.  *)
(***************************************************************************)
\* lines 299-304
BuildMessages(recent_messages) ==
  <<[role |-> "system"]>> \o recent_messages \o <<[role |-> "user"]>>

\* lines 432-436
AssistantMessage(collected_tool_calls) ==
  [role |-> "assistant", tool_calls |-> collected_tool_calls]

\* lines 489-493
ToolMessage(tool_call, tool_result) ==
  [role |-> "tool", tool_call_id |-> tool_call.id, content |-> tool_result]

\* A list that takes the response of a tool right behind the assistant
\* message, before the responses it already has.
InsertToolMessage(msgs, tool_call, tool_result) ==
  LET at == Len(msgs) - (CHOOSE n \in 0..Len(msgs) :
                           /\ n < Len(msgs)
                           /\ msgs[Len(msgs) - n].role = "assistant"
                           /\ \A m \in 0..(n - 1) : msgs[Len(msgs) - m].role # "assistant")
  IN SubSeq(msgs, 1, at) \o <<ToolMessage(tool_call, tool_result)>>
       \o SubSeq(msgs, at + 1, Len(msgs))

\* lines 489-493: messages.append
AppendToolMessage(msgs, tool_call, tool_result) ==
  Append(msgs, ToolMessage(tool_call, tool_result))

LoopStep(step, tool_call) == [step |-> step, id |-> tool_call.id]

\* the tool calls the LLM asks for in one response: none, one, two, and one
\* whose arguments do not parse
SearchCall == [id |-> "call_1", name |-> "search_code", arguments |-> <<"{}">>]
FileCall == [id |-> "call_2", name |-> "get_file_by_path", arguments |-> <<"{", "}">>]
BrokenCall == [id |-> "call_3", name |-> "find_function", arguments |-> <<"{">>]

LLMToolCalls ==
  {<<>>, <<SearchCall>>, <<FileCall, SearchCall>>, <<SearchCall, FileCall>>,
   <<FileCall, BrokenCall>>}

\* the messages of earlier exchanges, as the list takes them
RecentMessages ==
  {<<>>, <<[role |-> "user"], [role |-> "assistant"]>>}

LoopIdle ==
  /\ llm_messages = <<>>
  /\ sent = <<>>
  /\ loop_iteration = 0
  /\ loop_calls = <<>>
  /\ loop_index = 0
  /\ loop_result = Nothing
  /\ steps = <<>>
  /\ lpc = "finished"

LoopInit ==
  /\ \E recent_messages \in RecentMessages : llm_messages = BuildMessages(recent_messages)
  /\ sent = <<>>
  /\ loop_iteration = 0
  /\ loop_calls = <<>>
  /\ loop_index = 0
  /\ loop_result = Nothing
  /\ steps = <<>>
  /\ lpc = "llm_call"

LoopFrame ==
  UNCHANGED <<ingestVars, thinkVars, queryVars, chunkVars, depVars, findVars, treeVars,
              batchVars, collectVars, hitVars, parseVars, analyzeVars,
              lastVars>>

\* lines 326-336: the LLM is called with the list
SendMessages ==
  /\ lpc = "llm_call"
  /\ loop_iteration < max_iterations
  /\ sent' = llm_messages
  /\ lpc' = "streaming"
  /\ UNCHANGED <<llm_messages, loop_iteration, loop_calls, loop_index, loop_result, steps>>
  /\ LoopFrame

\* lines 553-563: the loop ran max_iterations times
LoopExhausted ==
  /\ lpc = "llm_call"
  /\ loop_iteration >= max_iterations
  /\ lpc' = "finished"
  /\ UNCHANGED <<llm_messages, sent, loop_iteration, loop_calls, loop_index, loop_result,
                 steps>>
  /\ LoopFrame

\* lines 348-436, 498: the stream ends; with tool calls the assistant
\* message is appended, without any the answer is final
StreamOver ==
  /\ lpc = "streaming"
  /\ \E collected_tool_calls \in LLMToolCalls :
       /\ loop_calls' = collected_tool_calls
       /\ IF collected_tool_calls # <<>>
            THEN /\ llm_messages' = Append(llm_messages, AssistantMessage(collected_tool_calls))
                 /\ loop_index' = 1
                 /\ lpc' = "tool_call"
            ELSE /\ UNCHANGED <<llm_messages, loop_index>>
                 /\ lpc' = "finished"
  /\ UNCHANGED <<sent, loop_iteration, loop_result, steps>>
  /\ LoopFrame

\* lines 439-451: the next tool call: json.loads, the tool_call event;
\* lines 495-496: after the last one the next iteration
YieldToolCall ==
  /\ lpc = "tool_call"
  /\ IF loop_index > Len(loop_calls)
       THEN /\ loop_iteration' = loop_iteration + 1
            /\ lpc' = "llm_call"
            /\ UNCHANGED steps
       ELSE /\ UNCHANGED loop_iteration
            /\ IF JsonLoads(loop_calls[loop_index].arguments)
                 THEN /\ steps' = Append(steps, LoopStep("tool_call event", loop_calls[loop_index]))
                      /\ lpc' = "execute_tool"
                 ELSE /\ UNCHANGED steps
                      /\ lpc' = "finished"
  /\ UNCHANGED <<llm_messages, sent, loop_calls, loop_index, loop_result>>
  /\ LoopFrame

\* lines 453-458: the tool returns
ToolExecuted ==
  /\ lpc = "execute_tool"
  /\ \E tool_result \in _execute_tool(loop_calls[loop_index].name, "empty") :
       loop_result' = Some(tool_result)
  /\ steps' = Append(steps, LoopStep("tool execution", loop_calls[loop_index]))
  /\ lpc' = "tool_result"
  /\ UNCHANGED <<llm_messages, sent, loop_iteration, loop_calls, loop_index>>
  /\ LoopFrame

\* lines 453-458, 565-570: the tool raises
ToolFails ==
  /\ lpc = "execute_tool"
  /\ lpc' = "finished"
  /\ UNCHANGED <<llm_messages, sent, loop_iteration, loop_calls, loop_index, loop_result,
                 steps>>
  /\ LoopFrame

\* lines 460-467: the tool_result event
YieldToolResult ==
  /\ lpc = "tool_result"
  /\ steps' = Append(steps, LoopStep("tool_result event", loop_calls[loop_index]))
  /\ lpc' = "tool_message"
  /\ UNCHANGED <<llm_messages, sent, loop_iteration, loop_calls, loop_index, loop_result>>
  /\ LoopFrame

\* lines 469-493: the response of the tool is appended to the list
TrackAndAppend ==
  /\ lpc = "tool_message"
  /\ llm_messages' = AppendToolMessage(llm_messages, loop_calls[loop_index], loop_result[1])
  /\ steps' = Append(steps, LoopStep("tool message", loop_calls[loop_index]))
  /\ loop_index' = loop_index + 1
  /\ loop_result' = Nothing
  /\ lpc' = "tool_call"
  /\ UNCHANGED <<sent, loop_iteration, loop_calls>>
  /\ LoopFrame

LoopNext ==
  \/ SendMessages
  \/ LoopExhausted
  \/ StreamOver
  \/ YieldToolCall
  \/ ToolExecuted
  \/ ToolFails
  \/ YieldToolResult
  \/ TrackAndAppend

(***************************************************************************)
(* The File documents under the coroutines of the fan-out                  *)
(* (file_processing_service.py 138-145: _resolve_dependencies 402-458,     *)
(* EmbeddingService.generate_embeddings_for_repository 56-110 and          *)
(* _generate_embeddings_for_file 112-261, AIService.                       *)
(* generate_summaries_for_repository 86-147) and of the post-fan-out       *)
(* stage (147-153: EmbeddingService.regenerate_summary_embeddings          *)
(* 326-391).  Of a File document the fields these stages write.  Every     *)
(* await of a coroutine is a step; asyncio.gather (without                 *)
(* return_exceptions) raises in the worker as soon as one coroutine has    *)
(* raised and leaves the others running.                                   *)
(***************************************************************************)
FanFiles == 1..MaxFanFiles

\* file_service.py 49-76: the document create_file inserts
NewFileDoc ==
  [dependencies |-> "empty", embeddings |-> <<>>, summary_embedding |-> Nothing,
   embedded |-> FALSE, summary |-> Nothing]

\* file_service.py 305-315: one update_one of bulk_update_dependencies
update_dependencies(doc, deps) == [doc EXCEPT !.dependencies = deps]

\* FileService.update_embeddings as embedding_service.py 250 and 381 call
\* it, with the summary embedding (file_service.py 199-223 sets embeddings
\* and embedded)
update_embeddings(doc, records, summary_embedding) ==
  [doc EXCEPT !.embeddings = records, !.summary_embedding = summary_embedding,
              !.embedded = TRUE]

\* embedding_service.py 142-230: the code embedding records of a file (a
\* class and a function in the first file, the windows of a large class in
\* the others)
CodeEmbeddings(f) ==
  IF f = 1 THEN <<[type |-> "class", name |-> "Engine"], [type |-> "function", name |-> "run"]>>
  ELSE <<[type |-> "class_chunk", name |-> "Parser_chunk_1"],
         [type |-> "class_chunk", name |-> "Parser_chunk_2"]>>

\* embedding_service.py 232-243 and 364-371: the embedding of the summary the
\* coroutine has read, None without a summary
EmbedSummary(summary) == IF summary # Nothing THEN Some(<<"embedding of", summary[1]>>) ELSE Nothing

\* the summary the LLM writes of file f
SummaryOf(f) == <<"summary of", f>>

\* A regeneration that keeps none of the records it has read.
code_embeddings_dropped(records) == <<>>

\* embedding_service.py 373-374
code_embeddings(records) == SelectSeq(records, LAMBDA e : e.type # "summary")

FanTaskIdle == [pc |-> "ok", snapshot |-> <<>>, todo |-> {}, skipped |-> {}]
FanTaskStart == [pc |-> "fetch", snapshot |-> <<>>, todo |-> {}, skipped |-> {}]
FanTaskWaiting == [pc |-> "waiting", snapshot |-> <<>>, todo |-> {}, skipped |-> {}]

Terminal == {"completed", "failed"}

FanIdle ==
  /\ fan_files = <<>>
  /\ deps_task = [pc |-> "ok", next |-> 0]
  /\ emb_task = FanTaskIdle
  /\ sum_task = FanTaskIdle
  /\ regen_task = FanTaskIdle
  /\ worker_pc = "returned"
  /\ run_status = "completed"
  /\ late_writes = {}
  /\ before_regen = Nothing
  /\ regen_written = {}

\* line 141: the parse stage is over, the three coroutines are started
FanInit ==
  /\ fan_files = [f \in FanFiles |-> NewFileDoc]
  /\ deps_task = [pc |-> "fetch", next |-> 0]
  /\ emb_task = FanTaskStart
  /\ sum_task = FanTaskStart
  /\ regen_task = FanTaskWaiting
  /\ worker_pc = "fanout"
  /\ run_status = "in_progress"
  /\ late_writes = {}
  /\ before_regen = Nothing
  /\ regen_written = {}

FanFrame == UNCHANGED <<earlierVars, limitVars, searchVars, fetchVars>>

\* a write of a File document by a coroutine, noted when the task is
\* already completed or failed
NoteWrite(coroutine) ==
  late_writes' = IF run_status \in Terminal THEN late_writes \cup {coroutine} ELSE late_writes

\* file_processing_service.py 418-431: the files are fetched and resolved
DepsFetch ==
  /\ deps_task.pc = "fetch"
  /\ deps_task' = [pc |-> "update", next |-> 1]
  /\ UNCHANGED <<fan_files, emb_task, sum_task, regen_task, worker_pc, run_status,
                 late_writes, before_regen, regen_written>>
  /\ FanFrame

\* file_service.py 304-318: the next update_one of bulk_update_dependencies
DepsUpdate ==
  /\ deps_task.pc = "update"
  /\ fan_files' = [fan_files EXCEPT ![deps_task.next] = update_dependencies(@, "resolved")]
  /\ deps_task' = IF deps_task.next = MaxFanFiles THEN [pc |-> "ok", next |-> 0]
                  ELSE [deps_task EXCEPT !.next = @ + 1]
  /\ NoteWrite("dependencies")
  /\ UNCHANGED <<emb_task, sum_task, regen_task, worker_pc, run_status, before_regen,
                 regen_written>>
  /\ FanFrame

\* file_processing_service.py 456-458: an exception of the store is raised
\* again
DepsRaise ==
  /\ deps_task.pc \in {"fetch", "update"}
  /\ deps_task' = [pc |-> "raised", next |-> 0]
  /\ UNCHANGED <<fan_files, emb_task, sum_task, regen_task, worker_pc, run_status,
                 late_writes, before_regen, regen_written>>
  /\ FanFrame

\* embedding_service.py 73-81: the files are read, with the summaries they
\* have then
EmbFetch ==
  /\ emb_task.pc = "fetch"
  /\ emb_task' = [pc |-> "embed", snapshot |-> fan_files, todo |-> FanFiles, skipped |-> {}]
  /\ UNCHANGED <<fan_files, deps_task, sum_task, regen_task, worker_pc, run_status,
                 late_writes, before_regen, regen_written>>
  /\ FanFrame

\* the coroutine has no file left
Ends(coroutine) == IF coroutine.todo = {} THEN [coroutine EXCEPT !.pc = "ok"] ELSE coroutine

\* embedding_service.py 130-257: the records of a file and the embedding of
\* the summary read are stored
EmbFile(f) ==
  /\ emb_task.pc = "embed"
  /\ f \in emb_task.todo
  /\ fan_files' = [fan_files EXCEPT ![f] =
                     update_embeddings(@, CodeEmbeddings(f),
                                       EmbedSummary(emb_task.snapshot[f].summary))]
  /\ emb_task' = Ends([emb_task EXCEPT !.todo = @ \ {f}])
  /\ NoteWrite("embeddings")
  /\ UNCHANGED <<deps_task, sum_task, regen_task, worker_pc, run_status, before_regen,
                 regen_written>>
  /\ FanFrame

\* embedding_service.py 259-261: an exception of the file is caught
EmbFileFails(f) ==
  /\ emb_task.pc = "embed"
  /\ f \in emb_task.todo
  /\ emb_task' = Ends([emb_task EXCEPT !.todo = @ \ {f}, !.skipped = @ \cup {f}])
  /\ UNCHANGED <<fan_files, deps_task, sum_task, regen_task, worker_pc, run_status,
                 late_writes, before_regen, regen_written>>
  /\ FanFrame

\* embedding_service.py 108-110 and file_processing_service.py 472-477: the
\* read raises, the wrapper catches
EmbFetchFails ==
  /\ emb_task.pc = "fetch"
  /\ emb_task' = [emb_task EXCEPT !.pc = "caught", !.skipped = FanFiles]
  /\ UNCHANGED <<fan_files, deps_task, sum_task, regen_task, worker_pc, run_status,
                 late_writes, before_regen, regen_written>>
  /\ FanFrame

\* ai_service.py 96-118
SumFetch ==
  /\ sum_task.pc = "fetch"
  /\ sum_task' = [pc |-> "summarize", snapshot |-> fan_files, todo |-> FanFiles, skipped |-> {}]
  /\ UNCHANGED <<fan_files, deps_task, emb_task, regen_task, worker_pc, run_status,
                 late_writes, before_regen, regen_written>>
  /\ FanFrame

\* ai_service.py 207-246: the summary of a file is stored
SumFile(f) ==
  /\ sum_task.pc = "summarize"
  /\ f \in sum_task.todo
  /\ fan_files' = [fan_files EXCEPT ![f].summary = update_summary(SummaryOf(f))]
  /\ sum_task' = Ends([sum_task EXCEPT !.todo = @ \ {f}])
  /\ NoteWrite("summaries")
  /\ UNCHANGED <<deps_task, emb_task, regen_task, worker_pc, run_status, before_regen,
                 regen_written>>
  /\ FanFrame

\* ai_service.py 233-236 and 248-250: no content, or an exception caught
SumFileFails(f) ==
  /\ sum_task.pc = "summarize"
  /\ f \in sum_task.todo
  /\ sum_task' = Ends([sum_task EXCEPT !.todo = @ \ {f}, !.skipped = @ \cup {f}])
  /\ UNCHANGED <<fan_files, deps_task, emb_task, regen_task, worker_pc, run_status,
                 late_writes, before_regen, regen_written>>
  /\ FanFrame

\* ai_service.py 145-147 and file_processing_service.py 491-496
SumFetchFails ==
  /\ sum_task.pc = "fetch"
  /\ sum_task' = [sum_task EXCEPT !.pc = "caught", !.skipped = FanFiles]
  /\ UNCHANGED <<fan_files, deps_task, emb_task, regen_task, worker_pc, run_status,
                 late_writes, before_regen, regen_written>>
  /\ FanFrame

\* file_processing_service.py 141-150: the gather raises when
\* _resolve_dependencies has raised; it returns when the three coroutines
\* have returned, and the post-fan-out coroutines are started
FanGather ==
  /\ worker_pc = "fanout"
  /\ \/ /\ deps_task.pc = "raised"
        /\ worker_pc' = "except"
        /\ UNCHANGED <<regen_task, before_regen>>
     \/ /\ deps_task.pc = "ok"
        /\ emb_task.pc \in {"ok", "caught"}
        /\ sum_task.pc \in {"ok", "caught"}
        /\ worker_pc' = "postfan"
        /\ regen_task' = FanTaskStart
        /\ before_regen' = Some(fan_files)
  /\ UNCHANGED <<fan_files, deps_task, emb_task, sum_task, run_status, late_writes,
                 regen_written>>
  /\ FanFrame

\* file_processing_service.py 161-164: fail_task, update_status
WorkerFails ==
  /\ worker_pc = "except"
  /\ run_status' = "failed"
  /\ worker_pc' = "returned"
  /\ UNCHANGED <<fan_files, deps_task, emb_task, sum_task, regen_task, late_writes,
                 before_regen, regen_written>>
  /\ FanFrame

\* embedding_service.py 337-343: the files are read; those with a summary
\* are taken
RegenFetch ==
  /\ regen_task.pc = "fetch"
  /\ regen_task' =
       Ends([pc |-> "embed", snapshot |-> fan_files,
             todo |-> {f \in FanFiles : fan_files[f].summary # Nothing}, skipped |-> {}])
  /\ UNCHANGED <<fan_files, deps_task, emb_task, sum_task, worker_pc, run_status,
                 late_writes, before_regen, regen_written>>
  /\ FanFrame

\* embedding_service.py 362-383: the summary is embedded and stored with the
\* code embedding records that were read
RegenFile(f) ==
  /\ regen_task.pc = "embed"
  /\ f \in regen_task.todo
  /\ fan_files' = [fan_files EXCEPT ![f] =
                     update_embeddings(@, code_embeddings(regen_task.snapshot[f].embeddings),
                                       EmbedSummary(regen_task.snapshot[f].summary))]
  /\ regen_task' = Ends([regen_task EXCEPT !.todo = @ \ {f}])
  /\ regen_written' = regen_written \cup {f}
  /\ NoteWrite("summary_embeddings")
  /\ UNCHANGED <<deps_task, emb_task, sum_task, worker_pc, run_status, before_regen>>
  /\ FanFrame

\* embedding_service.py 370-371 and 385-387: no embedding, or an exception
RegenFileFails(f) ==
  /\ regen_task.pc = "embed"
  /\ f \in regen_task.todo
  /\ regen_task' = Ends([regen_task EXCEPT !.todo = @ \ {f}, !.skipped = @ \cup {f}])
  /\ UNCHANGED <<fan_files, deps_task, emb_task, sum_task, worker_pc, run_status,
                 late_writes, before_regen, regen_written>>
  /\ FanFrame

\* file_processing_service.py 510-515: the read raises, the wrapper catches
RegenFetchFails ==
  /\ regen_task.pc = "fetch"
  /\ regen_task' = [regen_task EXCEPT !.pc = "caught"]
  /\ UNCHANGED <<fan_files, deps_task, emb_task, sum_task, worker_pc, run_status,
                 late_writes, before_regen, regen_written>>
  /\ FanFrame

\* file_processing_service.py 150-158: the second gather returns; the task
\* is completed
PostGather ==
  /\ worker_pc = "postfan"
  /\ regen_task.pc \in {"ok", "caught"}
  /\ worker_pc' = "complete"
  /\ UNCHANGED <<fan_files, deps_task, emb_task, sum_task, regen_task, run_status,
                 late_writes, before_regen, regen_written>>
  /\ FanFrame

WorkerCompletes ==
  /\ worker_pc = "complete"
  /\ run_status' = "completed"
  /\ worker_pc' = "returned"
  /\ UNCHANGED <<fan_files, deps_task, emb_task, sum_task, regen_task, late_writes,
                 before_regen, regen_written>>
  /\ FanFrame

FanNext ==
  \/ DepsFetch
  \/ DepsUpdate
  \/ DepsRaise
  \/ EmbFetch
  \/ \E f \in FanFiles : EmbFile(f)
  \/ \E f \in FanFiles : EmbFileFails(f)
  \/ EmbFetchFails
  \/ SumFetch
  \/ \E f \in FanFiles : SumFile(f)
  \/ \E f \in FanFiles : SumFileFails(f)
  \/ SumFetchFails
  \/ FanGather
  \/ WorkerFails
  \/ RegenFetch
  \/ \E f \in FanFiles : RegenFile(f)
  \/ \E f \in FanFiles : RegenFileFails(f)
  \/ RegenFetchFails
  \/ PostGather
  \/ WorkerCompletes

(***************************************************************************)
(* The raw-content requests of the parse stage at rest.                    *)
(***************************************************************************)
FetchIdle == content_requests = {}

(***************************************************************************)
(* The reads of the File collection by the dependency stage                *)
(* (file_processing_service.py 418-431) and by the summary stage           *)
(* (ai_service.py 96-111), both through FileService.get_files_by_repo      *)
(* (file_service.py 102-119) with its default limit.  The paths of the     *)
(* repository are numbered in the order the documents were inserted.       *)
(***************************************************************************)
StoredCounts == 0..(FILES_LIMIT + MaxOverLimit)

\* the File documents of a repository of n files
StoredFiles(n) == [p \in 1..n |-> [path |-> p]]

\* ai_service.py 99-110: the files outside the excluded directories
files_outside_excluded(fetched, excluded) == {p \in fetched : p \notin excluded}

LimitIdle ==
  /\ stored_count = 0
  /\ excluded_paths = {}
  /\ resolver_files = Nothing
  /\ files_to_summarize = Nothing

LimitInit ==
  /\ stored_count \in StoredCounts
  /\ excluded_paths \in SUBSET (1..Min(stored_count, MaxExcluded))
  /\ resolver_files = Nothing
  /\ files_to_summarize = Nothing

LimitFrame == UNCHANGED <<earlierVars, fanVars, searchVars, fetchVars>>

\* file_processing_service.py 422, 431: files = get_files_by_repo(repo_id);
\* DependencyResolver(repo_id, files)
ResolverReads ==
  /\ resolver_files = Nothing
  /\ resolver_files' = Some(get_files_by_repo(StoredFiles(stored_count), FILES_LIMIT))
  /\ UNCHANGED <<stored_count, excluded_paths, files_to_summarize>>
  /\ LimitFrame

\* ai_service.py 97-111: files = get_files_by_repo(repo_id), then the filter
SummaryReads ==
  /\ files_to_summarize = Nothing
  /\ files_to_summarize' =
       Some(files_outside_excluded(get_files_by_repo(StoredFiles(stored_count), FILES_LIMIT),
                                   excluded_paths))
  /\ UNCHANGED <<stored_count, excluded_paths, resolver_files>>
  /\ LimitFrame

LimitNext ==
  \/ ResolverReads
  \/ SummaryReads

(***************************************************************************)
(* VectorSearchService.search_code (services/vector_search_service.py      *)
(* 42-158), _vector_search (366-620) and the vector fallback of            *)
(* find_function (325-360).  A similarity is a whole number (the cosine    *)
(* similarity of a stored vector to the query vector, in steps); scores    *)
(* are kept as whole numbers by scaling: a hybrid score by 30, a final     *)
(* score by 300.                                                           *)
(***************************************************************************)
SEARCH_TOP_K == 2   \* vector_search_service.py lines 85 and 93: top_k=2

SearchFileIds == {"auth.py", "db.py"}

EmbeddingRecords == [type : {"function", "class"}, similarity : 1..MaxSimilarity]

\* the embeddings arrays explored: up to MaxEmbeddings records, no two alike
EmbeddingArrays ==
  UNION {{a \in [1..n -> EmbeddingRecords] : \A i, j \in 1..n : a[i] = a[j] => i = j} :
           n \in 0..MaxEmbeddings}

\* what the text index and the path of a file give for the query: the text
\* score, and whether a term of the query is in the path
LexicalMatches ==
  {[text_score |-> 0, filename_match |-> FALSE],
   [text_score |-> 3, filename_match |-> FALSE],
   [text_score |-> 0, filename_match |-> TRUE]}

SearchDocs ==
  [embeddings : EmbeddingArrays,
   summary_similarity : {Nothing} \cup {Some(v) : v \in 1..MaxSimilarity},
   lexical : LexicalMatches]

\* the orders in which a set can be listed
Orders(S) ==
  {o \in [1..Cardinality(S) -> S] : \A i, j \in 1..Cardinality(S) : o[i] = o[j] => i = j}

\* the greatest number of a set of naturals, 0 for the empty set
Greatest(S) == IF S = {} THEN 0 ELSE CHOOSE x \in S : \A y \in S : y <= x

\* the score $vectorSearch gives a document on the array path
\* embeddings.embedding (lines 451-466): that of its closest vector
doc_score(doc) == Greatest({doc.embeddings[i].similarity : i \in DOMAIN doc.embeddings})

\* hybrid_score and KeywordScorer.apply_filename_boost are not among the
\* sources; they are modelled from section 4.9 of the specification:
\* 0.7 * vector_score + 0.3 * min(text_score / 3, 1), times 1.3 when a term
\* of the query is in the path.
hybrid_score(vector_score, text_score) == 21 * vector_score + 3 * Min(text_score, 3)

apply_filename_boost(filename_match, base_score) ==
  IF filename_match THEN 13 * base_score ELSE 10 * base_score

\* lines 514-542: the final score of a result of the store
final_score(doc, vector_score) ==
  apply_filename_boost(doc.lexical.filename_match,
                       hybrid_score(vector_score, doc.lexical.text_score))

\* results.sort(key=score, reverse=True): the order of equal scores is kept
InsertByScore(x, sorted) ==
  LET k == Cardinality({i \in 1..Len(sorted) : sorted[i].similarity_score > x.similarity_score})
  IN SubSeq(sorted, 1, k) \o <<x>> \o SubSeq(sorted, k + 1, Len(sorted))

RECURSIVE SortByScore(_)
SortByScore(results) ==
  IF results = <<>> THEN <<>>
  ELSE InsertByScore(Head(results), SortByScore(Tail(results)))

\* what the store can return for a pipeline that ends with a sort by score
\* and $limit top_k: the candidates by falling score, equal scores in any
\* order, cut at top_k
StoreResults(candidates, score(_), top_k) ==
  {SubSeq(o, 1, Min(top_k, Len(o))) :
     o \in {l \in Orders(candidates) :
              \A i \in 1..(Len(l) - 1) : score(l[i]) >= score(l[i + 1])}}

\* lines 411-445: the summary pipeline, one candidate per document that has
\* a summary_embedding
SummaryPipeline(docs, top_k) ==
  StoreResults({f \in DOMAIN docs : docs[f].summary_similarity # Nothing},
               LAMBDA f : docs[f].summary_similarity[1], top_k)

\* lines 446-492: the code pipeline: the documents matched, unwound, grouped
\* by file_id with $first of every field, sorted by doc_score and cut
CodePipeline(docs, top_k) ==
  StoreResults({f \in DOMAIN docs : docs[f].embeddings # <<>>},
               LAMBDA f : doc_score(docs[f]), top_k)

\* the embedding the group stage keeps with a file: the record $first gives,
\* the one that stands first in the array (includeArrayIndex counts from 0)
first_embedding_index(doc) == 0

\* lines 565-576: a result of the summary search
SummaryHit(docs, f) ==
  [file_id |-> f, embedding_type |-> "summary",
   similarity_score |-> final_score(docs[f], docs[f].summary_similarity[1]),
   embedding_index |-> None]

\* lines 577-598: a result of the code search
CodeHit(docs, f) ==
  LET embedding_index == first_embedding_index(docs[f])
  IN [file_id |-> f, embedding_type |-> docs[f].embeddings[embedding_index + 1].type,
      similarity_score |-> final_score(docs[f], doc_score(docs[f])),
      embedding_index |-> embedding_index]

\* lines 109-117: the entry of a file not yet in files_map
FileEntry(result) ==
  [file_id |-> result.file_id, similarity_score |-> result.similarity_score,
   code_elements |-> <<>>]

\* lines 120-133: the element a code result adds to the entry of its file
CodeElement(result) ==
  [type |-> result.embedding_type, similarity_score |-> result.similarity_score,
   embedding_index |-> result.embedding_index]

\* The body of the loop without lines 135-137: the score of the entry stays
\* that of the first result of the file.
MergeResultFirstScore(files_map, result) ==
  LET known == \E i \in 1..Len(files_map) : files_map[i].file_id = result.file_id
      entries == IF known THEN files_map ELSE Append(files_map, FileEntry(result))
      at == CHOOSE i \in 1..Len(entries) : entries[i].file_id = result.file_id
  IN IF result.embedding_type = "summary" THEN entries
     ELSE [entries EXCEPT ![at].code_elements = Append(@, CodeElement(result))]

\* lines 105-137: the body of the loop over all_results; files_map is kept as
\* the sequence of its values in insertion order
MergeResult(files_map, result) ==
  LET known == \E i \in 1..Len(files_map) : files_map[i].file_id = result.file_id
      entries == IF known THEN files_map ELSE Append(files_map, FileEntry(result))
      at == CHOOSE i \in 1..Len(entries) : entries[i].file_id = result.file_id
  IN IF result.embedding_type = "summary" THEN entries
     ELSE [entries EXCEPT
             ![at].code_elements = Append(@, CodeElement(result)),
             ![at].similarity_score =
                IF result.similarity_score > @ THEN result.similarity_score ELSE @]

RECURSIVE GroupByFile(_, _)
GroupByFile(all_results, files_map) ==
  IF all_results = <<>> THEN files_map
  ELSE GroupByFile(Tail(all_results), MergeResult(files_map, Head(all_results)))

\* lines 100-141: all_results = summary_results + code_results, grouped, sorted
merge_results(summary_hits, code_hits) ==
  SortByScore(GroupByFile(summary_hits \o code_hits, <<>>))

\* lines 339-357: the function find_function takes from the results
vector_fallback(results) ==
  IF results # <<>> /\ results[1].code_elements # <<>>
    THEN LET functions == SelectSeq(results[1].code_elements, LAMBDA e : e.type = "function")
         IN IF functions # <<>>
              THEN Some([file_id |-> results[1].file_id, embedding_type |-> "function",
                         similarity_score |-> functions[1].similarity_score,
                         embedding_index |-> functions[1].embedding_index])
              ELSE Nothing
    ELSE Nothing

SearchIdle ==
  /\ sdocs = <<>>
  /\ summary_results = Nothing
  /\ code_results = Nothing
  /\ merged_results = <<>>
  /\ fallback_result = Nothing
  /\ spc = "returned"

\* find_function found no function of the name and turns to search_code
SearchInit ==
  /\ sdocs \in [SearchFileIds -> SearchDocs]
  /\ summary_results = Nothing
  /\ code_results = Nothing
  /\ merged_results = <<>>
  /\ fallback_result = Nothing
  /\ spc = "encode"

SearchFrame == UNCHANGED <<earlierVars, fanVars, limitVars, fetchVars>>

\* lines 67-73: the query is encoded; with no embedding search_code returns []
EncodeQuery ==
  /\ spc = "encode"
  /\ \E encoded \in BOOLEAN :
       spc' = IF encoded THEN "search" ELSE "merged"
  /\ UNCHANGED <<sdocs, summary_results, code_results, merged_results, fallback_result>>
  /\ SearchFrame

\* lines 79-87, 411-445, 494-576: the summary search of the gather
SummarySearch ==
  /\ spc = "search"
  /\ summary_results = Nothing
  /\ \E found \in SummaryPipeline(sdocs, SEARCH_TOP_K) :
       summary_results' =
         Some(SortByScore([i \in 1..Len(found) |-> SummaryHit(sdocs, found[i])]))
  /\ UNCHANGED <<sdocs, code_results, merged_results, fallback_result, spc>>
  /\ SearchFrame

\* lines 88-96, 446-492, 494-598: the code search of the gather
CodeSearch ==
  /\ spc = "search"
  /\ code_results = Nothing
  /\ \E found \in CodePipeline(sdocs, SEARCH_TOP_K) :
       code_results' =
         Some(SortByScore([i \in 1..Len(found) |-> CodeHit(sdocs, found[i])]))
  /\ UNCHANGED <<sdocs, summary_results, merged_results, fallback_result, spc>>
  /\ SearchFrame

\* lines 100-154: the gather has returned; the results are merged and returned
MergeResults ==
  /\ spc = "search"
  /\ summary_results # Nothing
  /\ code_results # Nothing
  /\ merged_results' = merge_results(summary_results[1], code_results[1])
  /\ spc' = "merged"
  /\ UNCHANGED <<sdocs, summary_results, code_results, fallback_result>>
  /\ SearchFrame

\* lines 156-158, 362-364: the store raises in a search; search_code raises,
\* find_function catches and returns None
SearchRaises ==
  /\ spc = "search"
  /\ fallback_result' = Nothing
  /\ spc' = "raised"
  /\ UNCHANGED <<sdocs, summary_results, code_results, merged_results>>
  /\ SearchFrame

\* lines 336-360: find_function looks for a function in the results
FindFallback ==
  /\ spc = "merged"
  /\ fallback_result' = vector_fallback(merged_results)
  /\ spc' = "returned"
  /\ UNCHANGED <<sdocs, summary_results, code_results, merged_results>>
  /\ SearchFrame

SearchNext ==
  \/ EncodeQuery
  \/ SummarySearch
  \/ CodeSearch
  \/ MergeResults
  \/ SearchRaises
  \/ FindFallback

\* the parts after the message list at rest
LastIdle == FanIdle /\ LimitIdle /\ SearchIdle /\ FetchIdle

\* everything before them at rest
EarlierIdle ==
  /\ IngestIdle /\ ThinkIdle /\ QueryIdle /\ ChunkIdle /\ DepIdle /\ FindIdle
  /\ TreeIdle /\ BatchIdle /\ CollectIdle /\ HitIdle /\ ParseIdle /\ AnalyzeIdle /\ LoopIdle

\* the tree fetch and the parts after it at rest
LaterIdle ==
  /\ TreeIdle /\ BatchIdle /\ CollectIdle /\ HitIdle /\ ParseIdle /\ AnalyzeIdle /\ LoopIdle
  /\ LastIdle

\* everything after the query side at rest
RestIdle == ChunkIdle /\ DepIdle /\ FindIdle /\ LaterIdle

Init == IngestInit /\ ThinkIdle /\ QueryIdle /\ RestIdle

Next == IngestNext

Spec == Init /\ [][Next]_vars

\* The steps of a run other than a store call raising: the event loop runs
\* the background task whenever it can take a step, and every await of the
\* run returns or raises.
IngestProgress ==
  \/ add_repository
  \/ LoadPreferences
  \/ GetRepository
  \/ CompleteEmpty
  \/ SetParsing
  \/ SetProcessing
  \/ ProcessBatch
  \/ BatchProgress
  \/ SetEmbedding
  \/ \E t \in FanTasks : FanTaskEnds(t)
  \/ GatherFanout
  \/ SetOverview
  \/ \E t \in PostTasks : PostTaskEnds(t)
  \/ GatherPost
  \/ SetFinalizing
  \/ CompleteTask
  \/ FinalStatus
  \/ ExceptFailTask
  \/ ExceptRepoStatus

SpecLive == Spec /\ WF_vars(IngestProgress)

\* One content stream through the filter: any text of Texts, cut into
\* deltas in any way.
InitThink == IngestIdle /\ ThinkInit /\ QueryIdle /\ RestIdle

SpecThink == InitThink /\ [][ThinkNext]_vars

\* The runs explored: one in which the LLM streams up to MaxContentDeltas
\* content deltas and MaxToolDeltas partial tool-call deltas over an empty
\* index, and one in which it streams whole tool calls, up to MaxToolCalls
\* of them, over an indexed repository.
QueryProfiles ==
  {[content_left |-> MaxContentDeltas, tool_left |-> MaxToolDeltas,
    tool_deltas |-> ToolDeltas, index |-> "empty"],
   [content_left |-> 1, tool_left |-> MaxToolCalls,
    tool_deltas |-> CompleteToolDeltas, index |-> "indexed"]}

\* a run answered with at most one content delta and no tool call
PlainProfile ==
  [content_left |-> 1, tool_left |-> 0, tool_deltas |-> {}, index |-> "empty"]

\* One stream_query run, on a conversation with or without history.
InitQuery ==
  /\ IngestIdle
  /\ ThinkIdle
  /\ RestIdle
  /\ \E profile \in QueryProfiles :
       q = [r \in Runs |-> IF r = 1 THEN NewQuery(profile) ELSE NoQuery]
  /\ \E n \in 0..MaxHistory : messages = History(n) /\ message_count = 2 * n

SpecQuery == InitQuery /\ [][QueryNext]_vars

\* MaxRuns concurrent stream_query runs on the same conversation; the LLM
\* answers each with at most one content delta and no tool call, so the steps
\* of the tool branch are not among the steps of these runs.
ConversationNext ==
  \E r \in Runs :
    \/ LoadConversation(r)
    \/ NextUserSequence(r)
    \/ SaveUserMessage(r)
    \/ CallLLM(r)
    \/ ReceiveContent(r)
    \/ StreamEnds(r)
    \/ FinalAnswer(r)
    \/ SaveAssistantMessage(r)
    \/ CountAndDone(r)
    \/ AwaitRaises(r)

InitConversation ==
  /\ IngestIdle
  /\ ThinkIdle
  /\ RestIdle
  /\ q = [r \in Runs |-> NewQuery(PlainProfile)]
  /\ \E n \in 0..MaxHistory : messages = History(n) /\ message_count = 2 * n

SpecConversation == InitConversation /\ [][ConversationNext]_vars

\* The class branch of _generate_embeddings_for_file, for one class.
InitChunks == IngestIdle /\ ThinkIdle /\ QueryIdle /\ ChunkInit /\ DepIdle /\ FindIdle /\ LaterIdle

SpecChunks == InitChunks /\ [][ChunkNext]_vars

\* The dependency stage of a run, over the parsed files of a repository.
InitDeps == IngestIdle /\ ThinkIdle /\ QueryIdle /\ ChunkIdle /\ DepInit /\ FindIdle /\ LaterIdle

SpecDeps == InitDeps /\ [][DepNext]_vars

\* One find_function call on an indexed repository.
InitFind == IngestIdle /\ ThinkIdle /\ QueryIdle /\ ChunkIdle /\ DepIdle /\ FindInit /\ LaterIdle

SpecFind == InitFind /\ [][FindNext]_vars

\* One tree fetch, and the files the worker stores from the tree it returned.
InitTree ==
  /\ IngestIdle /\ ThinkIdle /\ QueryIdle /\ ChunkIdle /\ DepIdle /\ FindIdle
  /\ TreeInit /\ BatchIdle /\ CollectIdle /\ HitIdle /\ ParseIdle /\ AnalyzeIdle
  /\ LoopIdle
  /\ LastIdle

SpecTree == InitTree /\ [][TreeNext]_vars

\* One batch loop of a run, over the items of its stage.
InitBatches ==
  /\ IngestIdle /\ ThinkIdle /\ QueryIdle /\ ChunkIdle /\ DepIdle /\ FindIdle
  /\ TreeIdle /\ BatchInit /\ CollectIdle /\ HitIdle /\ ParseIdle /\ AnalyzeIdle
  /\ LoopIdle
  /\ LastIdle

SpecBatches == InitBatches /\ [][BatchNext]_vars

\* The event loop runs every coroutine that can take a step, and every await
\* of the loop returns.
SpecBatchesLive == SpecBatches /\ WF_vars(BatchNext)

\* The tool-call deltas of one LLM stream of up to MaxChunks chunks.
InitCollect ==
  /\ IngestIdle /\ ThinkIdle /\ QueryIdle /\ ChunkIdle /\ DepIdle /\ FindIdle
  /\ TreeIdle /\ BatchIdle /\ CollectInit /\ HitIdle /\ ParseIdle /\ AnalyzeIdle
  /\ LoopIdle
  /\ LastIdle

SpecCollect == InitCollect /\ [][CollectNext]_vars

\* One hit of the code search on a class of an indexed file.
InitHit ==
  /\ IngestIdle /\ ThinkIdle /\ QueryIdle /\ ChunkIdle /\ DepIdle /\ FindIdle
  /\ TreeIdle /\ BatchIdle /\ CollectIdle /\ HitInit /\ ParseIdle /\ AnalyzeIdle
  /\ LoopIdle
  /\ LastIdle

SpecHit == InitHit /\ [][HitNext]_vars

\* The parsing and storing of one file.
InitParse ==
  /\ IngestIdle /\ ThinkIdle /\ QueryIdle /\ ChunkIdle /\ DepIdle /\ FindIdle
  /\ TreeIdle /\ BatchIdle /\ CollectIdle /\ HitIdle /\ ParseInit /\ AnalyzeIdle
  /\ LoopIdle
  /\ LastIdle

SpecParse == InitParse /\ [][ParseNext]_vars

\* One response of the analyzer and its storing.
InitAnalyze ==
  /\ IngestIdle /\ ThinkIdle /\ QueryIdle /\ ChunkIdle /\ DepIdle /\ FindIdle
  /\ TreeIdle /\ BatchIdle /\ CollectIdle /\ HitIdle /\ ParseIdle /\ AnalyzeInit
  /\ LoopIdle
  /\ LastIdle

SpecAnalyze == InitAnalyze /\ [][AnalyzeNext]_vars

\* The message list of one run, over the iterations of its loop.
InitLoop ==
  /\ IngestIdle /\ ThinkIdle /\ QueryIdle /\ ChunkIdle /\ DepIdle /\ FindIdle
  /\ TreeIdle /\ BatchIdle /\ CollectIdle /\ HitIdle /\ ParseIdle /\ AnalyzeIdle
  /\ LoopInit
  /\ LastIdle

SpecLoop == InitLoop /\ [][LoopNext]_vars

\* The fan-out and the post-fan-out stage of one run.
InitFan == EarlierIdle /\ FanInit /\ LimitIdle /\ SearchIdle /\ FetchIdle

SpecFan == InitFan /\ [][FanNext]_vars

\* The reads of the File collection by the dependency and summary stages.
InitLimit == EarlierIdle /\ FanIdle /\ LimitInit /\ SearchIdle /\ FetchIdle

SpecLimit == InitLimit /\ [][LimitNext]_vars

\* A call of find_function that turns to search_code.
InitSearch == EarlierIdle /\ FanIdle /\ LimitIdle /\ SearchInit /\ FetchIdle

SpecSearch == InitSearch /\ [][SearchNext]_vars

(***************************************************************************)
(* Properties of the ingestion run (specification Spec).                   *)
(***************************************************************************)
RunOver == pc \in {"returned", "rejected"}

\* C1: progress.current_step of a task never moves backwards in the order
\* queued < fetching < parsing < embedding < summarizing < overview <
\* finalizing < completed; the one exception allowed is a transition to
\* "failed", after which the step does not change any more.
C1_StepNeverMovesBack ==
  [][task.created =>
       /\ \/ StepRank(task'.current_step) >= StepRank(task.current_step)
          \/ task'.current_step = "failed"
       /\ task.current_step = "failed" => task'.current_step = "failed"
       /\ StepRank(task.current_step) > 0 =>
            (StepRank(task'.current_step) > 0 \/ task'.current_step = "failed")]_vars

\* C1 witness: a run whose step advanced up to finalizing and that was then
\* aborted by an exception (the task is failed, the step has not moved back).
C1_Witness ==
  /\ task.status = "failed"
  /\ task.current_step = FINALIZING
  /\ stepTrace = <<QUEUED, PARSING, EMBEDDING, OVERVIEW, FINALIZING>>

\* C2: when one of the three analysis fan-out coroutines meets an error, the
\* coroutine itself catches it, the pipeline goes on to the post-fan-out
\* stage and the run ends with the task completed, not failed. (Runs aborted
\* by a store error are left out: the claim is about fan-out errors alone.)
C2_FanoutErrorIsContained ==
  \A t \in FanTasks :
    (pc = "returned" /\ fan[t] \in {"caught", "raised"} /\ err # "store error") =>
      /\ fan[t] = "caught"
      /\ \A u \in PostTasks : post[u] # "idle"
      /\ task.status = "completed"

\* C8: a run over at least one file that ends completed has taken every
\* value of the step sequence, in order: queued, fetching, parsing,
\* embedding, summarizing, overview, finalizing, completed.
C8_EveryStepTaken ==
  (pc = "returned" /\ task.status = "completed" /\ repo.file_count >= 1) =>
    stepTrace = TaskStep

\* C9: when an exception aborts the run, the task and the repository are
\* both marked failed and the error message is stored on both documents.
C9_ErrorPersistedOnBoth ==
  (pc = "returned" /\ err # None) =>
    /\ task.status = "failed"
    /\ task.error_message = err
    /\ repo.status = "failed"
    /\ repo.error_message = err

\* The fatal conditions, read off the inputs of the run.
MetadataFetchFailed == http = 404
RepositoryNotFound == http = 200 /\ ~repoLookup
NoPreferencesOutsideDevelopment ==
  http = 200 /\ settings_env # "development" /\ session # "prefs"

InvalidInput == http = 400 \/ NoPreferencesOutsideDevelopment

\* C23: a request rejected as InvalidInput leaves no trace: no repository or
\* task document is created or modified, no file is processed and no stage
\* of the pipeline runs.
C23_InvalidInputNoSideEffects ==
  (RunOver /\ InvalidInput) =>
    /\ repo = NoRepo
    /\ task = NoTask
    /\ processed_count = 0
    /\ \A t \in FanTasks : fan[t] = "idle"
    /\ \A t \in PostTasks : post[t] = "idle"

(***************************************************************************)
(* Properties of the <think> filter (specification SpecThink).             *)
(***************************************************************************)
\* the concatenation of the contents of all answer_chunk events so far
EmittedText == Select(text, emitted, 1)

\* C5: however the content is cut into deltas, also when a cut falls inside
\* '<think>' or '</think>', the concatenation of the answer_chunk contents
\* of the whole stream equals the text with every <think>...</think> region
\* removed.  (Stated for texts in which every opening tag is closed.)
C5_FilterIndependentOfDeltas ==
  (fpc = "flushed" /\ Find(StripThink(text), OpenTag) = -1) =>
    EmittedText = StripThink(text)

\* C6: no answer_chunk contains the tag '<think>', and no character that
\* lies in a <think>...</think> region of the streamed text (between the
\* opening tag and its closing tag, or in the tags themselves) is ever
\* emitted, however the text is cut into deltas.
C6_NoThinkContentEmitted ==
  /\ \A i \in 1..Len(chunks) :
       /\ Find(chunks[i].content, OpenTag) = -1
       /\ chunks[i].content =
            SubSeq(text, chunks[i].at, chunks[i].at + Len(chunks[i].content) - 1)
  /\ emitted \cap RegionPositions(text) = {}
  /\ emitted \cap BetweenTags(text) = {}

\* C6 witness: the stream '<think>a</think>a' has ended, and exactly its
\* last character, the one after the region, was emitted.
C6_Witness ==
  /\ fpc = "flushed"
  /\ text = OpenTag \o <<"a">> \o CloseTag \o <<"a">>
  /\ BetweenTags(text) = {Len(OpenTag) + 1}
  /\ emitted = {Len(text)}
  /\ chunks = <<Chunk(<<"a">>, Len(text))>>


(***************************************************************************)
(* Properties of the stream_query runs                                     *)
(***************************************************************************)
ToolEvents == {"tool_call", "tool_result"}

TerminalEvents == {"done", "error"}

\* the place of an event type in the order tool events, answer chunks, terminal
EventRank(type) ==
  IF type \in ToolEvents THEN 0 ELSE IF type = "answer_chunk" THEN 1 ELSE 2

\* C3: the events of one stream_query run come in the order tool_call and
\* tool_result pairs, then answer_chunk events, then the terminal event: no
\* tool_call or tool_result event follows an answer_chunk event of the run,
\* and every tool_result directly follows its tool_call.
C3_ToolEventsBeforeAnswer ==
  \A r \in Runs :
    LET events == q[r].events
    IN /\ \A i \in 1..Len(events) : \A j \in 1..Len(events) :
            i < j => EventRank(events[i].type) <= EventRank(events[j].type)
       /\ \A i \in 1..Len(events) :
            events[i].type = "tool_result"
              => i > 1 /\ events[i - 1].type = "tool_call"

\* C4: a stream_query run yields exactly one terminal event and it is the
\* last event of the run: done when the loop ends with a final answer or
\* after max_iterations iterations, error when an exception was raised;
\* no event comes after the terminal one and a run never yields both.
C4_OneTerminalEventLast ==
  \A r \in Runs :
    LET events == q[r].events
    IN /\ \A i \in 1..Len(events) :
            events[i].type \in TerminalEvents => i = Len(events)
       /\ q[r].pc = "finished"
            <=> (events # <<>> /\ events[Len(events)].type \in TerminalEvents)
       /\ q[r].pc = "finished"
            => events[Len(events)].type = (IF q[r].raised THEN "error" ELSE "done")

\* a run that yielded tool events and an answer chunk and then ended with the
\* error event of a raised exception
C4_Witness ==
  \E r \in Runs :
    /\ q[r].pc = "finished"
    /\ q[r].raised
    /\ Len(q[r].events) >= 4
    /\ q[r].events[1].type = "tool_call"
    /\ \E i \in 1..Len(q[r].events) : q[r].events[i].type = "answer_chunk"
    /\ q[r].events[Len(q[r].events)].type = "error"

\* C7: the messages stored in one conversation have strictly increasing, so
\* pairwise distinct, sequence numbers, however the stream_query runs on the
\* conversation interleave; the assistant message of a run has a greater
\* number than the user message of the run.
C7_SequenceNumbersIncrease ==
  /\ \A i \in 1..Len(messages) : \A j \in 1..Len(messages) :
       i < j => messages[i].sequence_number < messages[j].sequence_number
  /\ \A i \in 1..Len(messages) : \A j \in 1..Len(messages) :
       (/\ messages[i].run = messages[j].run
        /\ messages[i].role = "user"
        /\ messages[j].role = "assistant")
         => messages[i].sequence_number < messages[j].sequence_number


\* the events of type done a run has yielded
DoneEvents(r) ==
  {k \in 1..Len(q[r].events) : q[r].events[k].type = "done"}

\* the run went through max_iterations iterations that each ended with tool
\* calls, and took the fallback
RanOutOfIterations(r) ==
  /\ q[r].pc = "finished"
  /\ ~q[r].raised
  /\ q[r].iteration = 5

\* C12: a stream_query run issues at most 5 streaming LLM calls; when each
\* of the 5 iterations ended with tool calls the run yields one apology
\* answer_chunk, then a done event with the accumulated sources and tool
\* calls, and stops.
C12_IterationBound ==
  \A r \in Runs :
    LET events == q[r].events
        n == Len(events)
    IN /\ q[r].llm_calls <= 5
       /\ RanOutOfIterations(r) =>
            /\ q[r].llm_calls = 5
            /\ n >= 2
            /\ events[n - 1].type = "answer_chunk"
            /\ events[n - 1].content = Apology
            /\ Cardinality({k \in 1..n : /\ events[k].type = "answer_chunk"
                                         /\ events[k].content = Apology}) = 1
            /\ events[n].type = "done"
            /\ events[n].sources = q[r].sources
            /\ events[n].tool_calls = q[r].tool_calls_made
            /\ Len(q[r].tool_calls_made) >= 5

\* a run that used up its five iterations
C12_Witness ==
  \E r \in Runs :
    /\ RanOutOfIterations(r)
    /\ q[r].llm_calls = 5
    /\ q[r].events[Len(q[r].events)].type = "done"

\* C18: when a run gives its final answer after tool calls were executed in
\* earlier iterations, the assistant message it stores carries those tool
\* calls.
C18_PersistedToolCalls ==
  \A i \in 1..Len(messages) :
    (/\ messages[i].role = "assistant"
     /\ messages[i].run \in Runs
     /\ q[messages[i].run].tool_calls_made # <<>>)
      => /\ messages[i].tool_calls # Nothing
         /\ Len(messages[i].tool_calls[1]) = Len(q[messages[i].run].tool_calls_made)

\* C19: the sources of a done event hold no two entries for the same file
\* path and line range.
C19_SourcesDeduplicated ==
  \A r \in Runs : \A k \in DoneEvents(r) :
    LET src == q[r].events[k].sources
    IN \A i \in 1..Len(src) : \A j \in 1..Len(src) : i # j => src[i] # src[j]

\* the file paths a tool result refers to
ReferredPaths(tool_result) ==
  {tool_result.items[i].file_path[1] :
     i \in {k \in 1..Len(tool_result.items) : tool_result.items[k].file_path # Nothing}}
    \cup {tool_result.path[k] : k \in 1..Len(tool_result.path)}
    \cup {tool_result.file_path[k] : k \in 1..Len(tool_result.file_path)}

\* C20: every executed tool call whose result refers to a file adds it to
\* the sources of the run: each element's file_path of a list, the file path
\* of a single object (the record of get_file_by_path or of find_function).
C20_EveryResultIsASource ==
  \A r \in Runs : \A k \in 1..Len(q[r].tool_results) :
    \A path \in ReferredPaths(q[r].tool_results[k]) :
      \E i \in 1..Len(q[r].sources) : q[r].sources[i].file_path = path

(***************************************************************************)
(* Termination of the ingestion run                                        *)
(***************************************************************************)
\* the background task has been started with a credential, the preferences
\* resolve and the repository document exists
RunStartedWell ==
  /\ pc = "start"
  /\ resolve_preferences(session, settings_env) = "ok"
  /\ repoLookup

RunCompleted ==
  /\ task.status = "completed"
  /\ task.current_step = COMPLETED
  /\ repo.status = "completed"

\* C11: an ingestion run started with a credential, resolvable preferences
\* and an existing repository, in which no fatal condition occurs, eventually
\* ends with the task completed (current_step completed) and the repository
\* completed.  The fatal conditions (no metadata, no repository, no
\* preferences outside development) are excluded by RunStartedWell; a store
\* call that raises is a fault of the database, left aside here as well.
C11_RunCompletes == RunStartedWell ~> (RunCompleted \/ err = "store error")

(***************************************************************************)
(* Properties of the sliding-window chunks of a large class                *)
(***************************************************************************)
CeilDiv(a, b) == (a + b - 1) \div b

ClassSpan == cls.line_end - cls.line_start

\* the class is large and its windows have been produced
LargeClassChunked == epc # "class" /\ ClassSpan > 800

\* the lines a window contains
WindowLines(w) == w.start .. w.end

\* C13: for a class with span = line_end - line_start > 800 the number of
\* windows produced, and the total_chunks recorded on every class_chunk
\* record, is ceil((span - 100) / (700 - 100)).
C13_ChunkCount ==
  LargeClassChunked =>
    /\ Len(class_chunks) = CeilDiv(ClassSpan - 100, 700 - 100)
    /\ \A k \in 1..Len(embeddings) :
         /\ embeddings[k].type = "class_chunk"
         /\ embeddings[k].total_chunks = CeilDiv(ClassSpan - 100, 700 - 100)

\* a class cut into three windows, all three recorded
C13_Witness ==
  /\ epc = "done"
  /\ ClassSpan > 800
  /\ Len(class_chunks) = 3
  /\ Len(embeddings) = 3

\* C14: every window of a large class has at most 700 lines, the window that
\* starts at line s being [s, min(s + 699, line_end)]; the class of lines
\* 10 to 910 gives exactly the windows [10, 709] and [610, 910].
C14_WindowAtMost700Lines ==
  LargeClassChunked =>
    /\ \A i \in 1..Len(class_chunks) :
         /\ class_chunks[i].end - class_chunks[i].start + 1 <= 700
         /\ class_chunks[i].end = Min(class_chunks[i].start + 699, cls.line_end)
    /\ (cls.line_start = 10 /\ cls.line_end = 910)
         => /\ Len(class_chunks) = 2
            /\ <<class_chunks[1].start, class_chunks[1].end>> = <<10, 709>>
            /\ <<class_chunks[2].start, class_chunks[2].end>> = <<610, 910>>

\* C15: the windows of a large class, in order, start at line_start and end
\* at line_end, adjacent windows share at least 100 lines, and the union of
\* the windows is exactly the lines line_start .. line_end.
C15_WindowsCoverClass ==
  LargeClassChunked =>
    /\ class_chunks # <<>>
    /\ class_chunks[1].start = cls.line_start
    /\ class_chunks[Len(class_chunks)].end = cls.line_end
    /\ \A i \in 1..(Len(class_chunks) - 1) :
         Cardinality(WindowLines(class_chunks[i]) \cap WindowLines(class_chunks[i + 1]))
           >= 100
    /\ UNION {WindowLines(class_chunks[i]) : i \in 1..Len(class_chunks)}
         = cls.line_start .. cls.line_end

\* a class cut into four windows
C15_Witness ==
  /\ epc = "chunks"
  /\ ClassSpan > 800
  /\ Len(class_chunks) = 4


DefinedInRepository ==
  \E p \in DOMAIN fdocs : \E func \in fdocs[p] : func.name = find_name

\* the result is a definition of the name asked for, with its line range
ExactResult ==
  /\ find_result # Nothing
  /\ find_result[1].name = find_name
  /\ \E func \in fdocs[find_result[1].file_path] :
       /\ func.name = find_name
       /\ func.line_start = find_result[1].line_start
       /\ func.line_end = find_result[1].line_end
       /\ find_result[1].code = func.line_start .. func.line_end

\* C17: find_function(repo_id, name, path?) returns a function record whose
\* name is exactly `name`, with its source lines and line range, whenever
\* some file of the repository defines a function of that name, and then
\* without a call of the embedding API.  (Calls in which the store raises
\* are left aside.)
C17_ExactMatchWheneverDefined ==
  (findpc = "returned" /\ ~find_raised /\ DefinedInRepository)
    => (ExactResult /\ ~api_called)


(***************************************************************************)
(* Properties of the tree fetch and of the inclusion filter                *)
(* (specification SpecTree).                                               *)
(***************************************************************************)
\* the folder names of the denylist (the entries written with a trailing
\* slash) and its file names (the entries without)
DenylistedFolders ==
  {Prefix(pattern, Len(pattern) - 1) :
     pattern \in {x \in ignore_patterns : EndsWith(x, <<"/">>)}}

DenylistedNames == {x \in ignore_patterns : ~EndsWith(x, <<"/">>)}

\* the filter as the specification words it, for an entry with a path and a size
Rejected(entry_path, entry_size) ==
  LET parts == Split(entry_path)
      filename == parts[Len(parts)]
  IN \/ \E i \in 1..(Len(parts) - 1) : parts[i] \in DenylistedFolders
     \/ \E i \in 1..Len(parts) : parts[i] \in DenylistedNames
     \/ \E ext \in ignore_extensions : EndsWith(filename, ext)
     \/ entry_size > MAX_FILE_SIZE
     \/ StartsWith(filename, <<".">>) /\ filename \notin hidden_allowed

RetainedPaths == {file_tree[i].path : i \in 1..Len(file_tree)}

\* no stored File document has a path or a size that the filter rejects
NoRejectedFileStored ==
  \A d \in file_docs : ~Rejected(d.path, d.size_bytes)

\* C21: once the tree is built, a file entry of the response is left out of
\* it exactly when a component of its path is a denylisted folder or name, or
\* its extension is denylisted, or it is larger than 100 KB, or it is a hidden
\* file outside the allowlist, and every other file entry is retained; and no
\* stored File document has a path or size that the filter rejects.
C21_FilterRetainsTheRest ==
  /\ tpc \in {"tree", "files", "stored"} =>
       \A i \in 1..Len(tree_data) :
         tree_data[i].type = "blob" =>
           (tree_data[i].path \in RetainedPaths
              <=> ~Rejected(tree_data[i].path, tree_data[i].size))
  /\ NoRejectedFileStored

\* C22: the branches requested are the branch asked for, followed by master
\* exactly when the first response was 404 and the branch asked for was main;
\* there are never more than two requests; and the call raises exactly when
\* the last request failed.
C22_RetryMasterOnce ==
  tpc \notin {"request", "retry"} =>
    /\ Len(requested) \in {1, 2}
    /\ requested[1] = branch
    /\ Len(requested) = 2 <=> (statuses[1] = 404 /\ branch = "main")
    /\ Len(requested) = 2 => requested[2] = "master"
    /\ tpc # "response" => (tpc = "raised" <=> statuses[Len(statuses)] # 200)

\* the first request for main was answered 404 and the retry succeeded
C22_Witness ==
  /\ tpc = "tree"
  /\ requested = <<"main", "master">>
  /\ statuses = <<404, 200>>


(***************************************************************************)
(* Properties of the batch loops (specifications SpecBatches and           *)
(* SpecBatchesLive).                                                       *)
(***************************************************************************)
\* the stage is over and every item whose own processing met no fault has
\* been processed successfully (in the parse stage: its document is stored)
AllOthersProcessed ==
  /\ bpc = "done"
  /\ \A k \in 1..stage_total : k \notin faulted => item_state[k] = "ok"

\* C24: in the parse stage, once the processing of a file has failed (fetch,
\* decoding, parser or store), the stage still runs to its end, not aborted,
\* and every other file, of the same batch and of later batches, is processed
\* and persisted.
C24_FailureSkipsOnlyThatFile ==
  (stage = "parse" /\ faulted # {}) ~> AllOthersProcessed

\* a file of the first batch failed, and the files of the later batches were
\* processed all the same
C24_Witness ==
  /\ stage = "parse"
  /\ AllOthersProcessed
  /\ \E k \in faulted : k <= BATCH_SIZE
  /\ stage_total > BATCH_SIZE
  /\ item_state[stage_total] = "ok"

\* the items of the n-th batch of a stage with batches of the given size
NthBatch(n, size) == {k \in 1..stage_total : (n - 1) * size < k /\ k <= n * size}

\* C29: the batches of a stage are the consecutive slices of at most 100
\* (parse), 8 (embedding) or 5 (summary) items; while a batch is gathered all
\* its items have been started together; an item of a batch has started only
\* after every item of the batches before has ended, successfully or not; and
\* in the parse stage progress.processed_files counts, when a batch starts
\* and at the end, all the items of the batches before.
C29_SequentialBatches ==
  LET size == StageBatchSize(stage)
      n == Len(started)
  IN /\ size = (IF stage = "parse" THEN 100 ELSE IF stage = "embedding" THEN 8 ELSE 5)
     /\ \A m \in 1..n :
          /\ started[m].batch = NthBatch(m, size)
          /\ Cardinality(started[m].batch) <= size
          /\ stage = "parse" => started[m].task_processed = (m - 1) * size
     /\ \A k \in 1..stage_total :
          /\ (\E m \in 1..(n - 1) : k \in started[m].batch) =>
               item_state[k] \in {"ok", "failed"}
          /\ (n >= 1 /\ k \in started[n].batch) => item_state[k] # "waiting"
          /\ (\A m \in 1..n : k \notin started[m].batch) => item_state[k] = "waiting"
     /\ (stage = "parse" /\ bpc = "done") => task_processed = stage_total

\* an embedding stage of three batches has ended, with a failed item
C29_Witness ==
  /\ stage = "embedding"
  /\ bpc = "done"
  /\ Len(started) = 3
  /\ faulted # {}


(***************************************************************************)
(* Properties of the tool-call collection (specification SpecCollect).     *)
(***************************************************************************)
\* the argument fragments received for an index, in arrival order
RECURSIVE FragmentsOf(_, _)
FragmentsOf(deltas, i) ==
  IF deltas = <<>> THEN <<>>
  ELSE (IF Head(deltas).index = i /\ Head(deltas).arguments # None
          THEN <<Head(deltas).arguments>> ELSE <<>>)
         \o FragmentsOf(Tail(deltas), i)

\* C25: whatever the arrival order of the deltas, the arguments collected for
\* index i are the fragments received for index i, concatenated in arrival
\* order, and an entry exists for every index up to the highest received;
\* the arguments are parsed only once the stream has ended.
C25_ReassembledByIndex ==
  /\ \A i \in 0..MaxToolIndex :
       IF \E k \in 1..Len(received_deltas) : received_deltas[k].index >= i
         THEN /\ Len(collected_calls) > i
              /\ collected_calls[i + 1].arguments = FragmentsOf(received_deltas, i)
         ELSE Len(collected_calls) <= i
  /\ parsed_args # <<>> => cpc \in {"parsed", "raised"}
  /\ cpc = "streaming" => parsed_args = <<>>

\* the fragments of two tool calls arrived interleaved, and both argument
\* strings were reassembled and parsed
C25_Witness ==
  /\ cpc = "parsed"
  /\ Len(received_deltas) = 4
  /\ received_deltas[1].index = 0 /\ received_deltas[1].arguments = "{"
  /\ received_deltas[2].index = 1 /\ received_deltas[2].arguments = "{"
  /\ received_deltas[3].index = 0 /\ received_deltas[3].arguments = "}"
  /\ received_deltas[4].index = 1 /\ received_deltas[4].arguments = "}"
  /\ parsed_args = <<TRUE, TRUE>>


(***************************************************************************)
(* Properties of the class_chunk hit (specification SpecHit).              *)
(***************************************************************************)
\* C26: the result formatted for a class_chunk hit whose file document was
\* read carries, as its code, the lines [line_start, line_end] of the class
\* the chunk was cut from, and carries the matched chunk beside it.
C26_FullClassOfChunk ==
  (rpc = "formatted" /\ hit.type = "class_chunk") =>
    /\ formatted_result[1].code =
         _extract_code_by_lines(file_classes[hit_class].line_start,
                                file_classes[hit_class].line_end)
    /\ formatted_result[1].chunk_code = Some(hit.code)

\* the same, for the files that have no two classes of one name
C26_UniqueNames ==
  (/\ rpc = "formatted"
   /\ hit.type = "class_chunk"
   /\ \A j, k \in 1..Len(file_classes) :
        file_classes[j].name = file_classes[k].name => j = k) =>
    /\ formatted_result[1].code =
         _extract_code_by_lines(file_classes[hit_class].line_start,
                                file_classes[hit_class].line_end)
    /\ formatted_result[1].chunk_code = Some(hit.code)


(***************************************************************************)
(* Properties of the parsers (specification SpecParse).                    *)
(***************************************************************************)
\* the flat entry f is the twin of method m of class c
IsTwin(f, m, c) ==
  /\ f.name = m.name
  /\ f.line_start = m.line_start
  /\ f.line_end = m.line_end
  /\ f.is_method
  /\ f.parent_class = c.name

\* a standalone function, as the embedder takes it: not is_method
IsStandalone(f) == ~f.is_method /\ f.parent_class = None

\* every method nested in a class has exactly one twin in the flat list
MethodsHaveTwins(functions, classes) ==
  \A c \in 1..Len(classes) : \A m \in 1..Len(classes[c].methods) :
    Cardinality({f \in 1..Len(functions) :
                   IsTwin(functions[f], classes[c].methods[m], classes[c])}) = 1

\* every entry of the flat list is a standalone function or such a twin
OnlyStandaloneOrTwins(functions, classes) ==
  \A f \in 1..Len(functions) :
    \/ IsStandalone(functions[f])
    \/ \E c \in 1..Len(classes) : \E m \in 1..Len(classes[c].methods) :
         IsTwin(functions[f], classes[c].methods[m], classes[c])

\* C27: in a parsed file the flat functions list is made of the standalone
\* functions and of one twin for each method nested in an entry of classes,
\* and of nothing else; each twin has is_method true and parent_class equal
\* to the name of the class that nests the method.
C27_FlatListIsStandalonePlusMethods ==
  ppc \in {"parsed", "saved"} =>
    /\ MethodsHaveTwins(parsed_data[1].functions, parsed_data[1].classes)
    /\ OnlyStandaloneOrTwins(parsed_data[1].functions, parsed_data[1].classes)

\* the half of it that is about the methods alone
C27_MethodTwins ==
  ppc \in {"parsed", "saved"} =>
    MethodsHaveTwins(parsed_data[1].functions, parsed_data[1].classes)


(***************************************************************************)
(* Properties of the analyzer's responses (specification SpecAnalyze).     *)
(***************************************************************************)
\* C28: a response of the LLM that the analyzer has written to the store,
\* the summary of a file or the overview of the repository, holds no
\* <think>...</think> region.
C28_StoredWithoutThinkRegions ==
  apc = "stored" => ThinkRegions(stored_text[1], 0) = {}

\* the same of the summaries alone, which are what is left of the response
\* outside its regions
C28_SummariesWithoutThinkRegions ==
  (apc = "stored" /\ response_kind = "summary") =>
    /\ ThinkRegions(stored_text[1], 0) = {}
    /\ Select(stored_text[1], {i \in 1..Len(stored_text[1]) : ~IsSpace(stored_text[1][i])}, 1)
         = Select(StripThink(raw_content),
                  {i \in 1..Len(StripThink(raw_content)) : ~IsSpace(StripThink(raw_content)[i])}, 1)


(***************************************************************************)
(* Properties of the message list (specification SpecLoop).                *)
(***************************************************************************)
CarriesToolCalls(msg) == msg.role = "assistant" /\ "tool_calls" \in DOMAIN msg

\* In msgs the assistant message at position p, carrying k tool calls, is
\* followed by exactly k tool-response messages, the j-th of them with the
\* id of the j-th tool call.
FollowedByResponses(msgs, p) ==
  LET k == Len(msgs[p].tool_calls)
  IN /\ p + k <= Len(msgs)
     /\ \A j \in 1..k :
          /\ msgs[p + j].role = "tool"
          /\ msgs[p + j].tool_call_id = msgs[p].tool_calls[j].id
     /\ p + k < Len(msgs) => msgs[p + k + 1].role # "tool"

\* the tool calls of all the assistant messages of msgs, in order
RECURSIVE ToolCallsOf(_)
ToolCallsOf(msgs) ==
  IF msgs = <<>> THEN <<>>
  ELSE (IF CarriesToolCalls(Head(msgs)) THEN Head(msgs).tool_calls ELSE <<>>)
         \o ToolCallsOf(Tail(msgs))

ToolSteps == <<"tool_call event", "tool execution", "tool_result event", "tool message">>

\* C30: in the message list given to the LLM every assistant message that
\* carries k tool calls is followed by exactly k tool-response messages in
\* the order of the calls, each with the id of its call as tool_call_id; and
\* what the run does for its tool calls is, call after call, the tool_call
\* event, the execution, the tool_result event and the appending of the
\* tool-response message.
C30_ToolResponsesFollowCalls ==
  /\ \A p \in 1..Len(sent) : CarriesToolCalls(sent[p]) => FollowedByResponses(sent, p)
  /\ \A n \in 1..Len(steps) :
       /\ steps[n].step = ToolSteps[((n - 1) % 4) + 1]
       /\ ((n - 1) \div 4) + 1 <= Len(ToolCallsOf(llm_messages))
       /\ steps[n].id = ToolCallsOf(llm_messages)[((n - 1) \div 4) + 1].id
  /\ Len(SelectSeq(llm_messages, LAMBDA msg : msg.role = "tool")) = Len(steps) \div 4

\* the LLM is given a list with an assistant message of two tool calls
C30_Witness ==
  /\ lpc = "streaming"
  /\ \E p \in 1..Len(sent) :
       /\ CarriesToolCalls(sent[p])
       /\ Len(sent[p].tool_calls) = 2
       /\ sent[p].tool_calls[1].id # sent[p].tool_calls[2].id


(***************************************************************************)
(* Properties of the task document over a run (specification Spec).        *)
(***************************************************************************)
\* C35: once the status of the task is completed it does not change any
\* more, and at every point of the run current_step is completed only while
\* the status is completed: no failure of the store or of a stage leaves a
\* task with status failed and current_step completed.
C35_CompletedIsFinal ==
  /\ [][task.status = "completed" => task'.status = "completed"]_vars
  /\ [](task.current_step = COMPLETED => task.status = "completed")

\* the part of it that holds: a task is completed only through
\* complete_task, which sets both fields
C35_CompletedStatusHasStep ==
  task.status = "completed" => task.current_step = COMPLETED


(***************************************************************************)
(* Properties of progress.processed_files (specification SpecBatches).     *)
(***************************************************************************)
\* the items whose coroutine has ended, with a document stored or not
EndedItems == {k \in 1..stage_total : item_state[k] \in {"ok", "failed"}}

\* C38: progress.processed_files never decreases (its values at the starts
\* of the batches, in order, and its value now) and never exceeds
\* total_files; between two batches of the parse stage it counts every file
\* of the batches that have ended, stored or skipped; so at the end of the
\* parse stage it equals total_files, even with files skipped.
C38_ProcessedFilesCountsBatches ==
  /\ task_processed <= stage_total
  /\ \A m \in 1..Len(started) :
       /\ started[m].task_processed <= task_processed
       /\ \A n \in 1..m : started[n].task_processed <= started[m].task_processed
  /\ (stage = "parse" /\ bpc \in {"loop", "done"}) =>
       task_processed = Cardinality(EndedItems)
  /\ (stage = "parse" /\ bpc = "done") => task_processed = stage_total

\* a parse stage of two batches has ended with a file of each batch skipped
C38_Witness ==
  /\ stage = "parse"
  /\ bpc = "done"
  /\ Len(started) = 2
  /\ \E k \in faulted : k <= BATCH_SIZE
  /\ \E k \in faulted : k > BATCH_SIZE
  /\ task_processed = stage_total


(***************************************************************************)
(* Properties of the File documents under the fan-out and the post-fan-out *)
(* stage (specification SpecFan).                                          *)
(***************************************************************************)
\* What a fan-out task makes of the documents when it runs alone, from its
\* first step to its last, skipping the files it skipped in this run.
RunAlone(coroutine, docs) ==
  CASE coroutine = "dependencies" ->
         [f \in FanFiles |-> update_dependencies(docs[f], "resolved")]
    [] coroutine = "embeddings" ->
         [f \in FanFiles |->
            IF f \in emb_task.skipped THEN docs[f]
            ELSE update_embeddings(docs[f], CodeEmbeddings(f), EmbedSummary(docs[f].summary))]
    [] coroutine = "summaries" ->
         [f \in FanFiles |->
            IF f \in sum_task.skipped THEN docs[f]
            ELSE [docs[f] EXCEPT !.summary = update_summary(SummaryOf(f))]]

\* the three tasks one after another, in the given order
RECURSIVE RunInOrder(_, _)
RunInOrder(order, docs) ==
  IF order = <<>> THEN docs ELSE RunInOrder(Tail(order), RunAlone(Head(order), docs))

TaskOrders ==
  {order \in [1..3 -> FanTasks] : \A i, j \in 1..3 : i # j => order[i] # order[j]}

\* the fan-out has ended, its three tasks having returned normally
FanOutOver ==
  /\ worker_pc = "postfan"
  /\ regen_task.pc = "fetch"
  /\ emb_task.pc = "ok"
  /\ sum_task.pc = "ok"

WithoutSummaryEmbedding(docs) ==
  [f \in FanFiles |-> [docs[f] EXCEPT !.summary_embedding = Nothing]]

C31_WrittenFieldsAsSequential ==
  FanOutOver =>
    \A order \in TaskOrders :
      WithoutSummaryEmbedding(fan_files)
        = WithoutSummaryEmbedding(RunInOrder(order, [f \in FanFiles |-> NewFileDoc]))

\* C36: no coroutine of the run writes a File document once the task is
\* completed or failed.
C36_NoWriteAfterTerminal ==
  late_writes = {}

\* after a completed task nothing is left running
C36_NothingRunsAfterCompleted ==
  run_status = "completed" =>
    /\ late_writes = {}
    /\ deps_task.pc = "ok"
    /\ emb_task.pc \in {"ok", "caught"}
    /\ sum_task.pc \in {"ok", "caught"}
    /\ regen_task.pc \in {"ok", "caught"}

TreeBranch == requested[Len(requested)]

\* C37: file contents are fetched from the same branch from which the file
\* tree of the repository was listed, also when the tree fetch fell back
\* from main to master.
C37_ContentFromTreeBranch ==
  tpc = "stored" => \A r \in content_requests : r.branch = TreeBranch

\* Without the fallback the contents are asked of the branch of the tree.
C37_SameBranchWithoutFallback ==
  (tpc = "stored" /\ Len(requested) = 1) =>
     \A r \in content_requests : r.branch = TreeBranch


(***************************************************************************)
(* Properties of the reads of the File collection (specification           *)
(* SpecLimit).                                                             *)
(***************************************************************************)
AllStoredPaths == 1..stored_count

\* C39: the dependency-resolution stage and the summary stage each take
\* every File document of the repository as input, whatever the number of
\* files: no stored file is left out of the known paths of the resolver or
\* of the summary candidates because of the size of the repository.
C39_EveryStoredFileIsInput ==
  /\ resolver_files # Nothing => resolver_files[1] = AllStoredPaths
  /\ files_to_summarize # Nothing =>
       files_to_summarize[1] = AllStoredPaths \ excluded_paths

\* Up to the default limit of get_files_by_repo both stages take every file.
C39_EveryFileUpToTheLimit ==
  stored_count <= FILES_LIMIT =>
    /\ resolver_files # Nothing => resolver_files[1] = AllStoredPaths
    /\ files_to_summarize # Nothing =>
         files_to_summarize[1] = AllStoredPaths \ excluded_paths


(***************************************************************************)
(* Properties of search_code and of the fallback of find_function          *)
(* (specification SpecSearch).                                             *)
(***************************************************************************)
OncePerFile(results) ==
  \A i, j \in 1..Len(results) : results[i].file_id = results[j].file_id => i = j

\* the similarity to the query of the embedding record a code result carries
CandidateSimilarity(result) ==
  sdocs[result.file_id].embeddings[result.embedding_index + 1].similarity

\* C32: in the code-vector search each file contributes at most one
\* candidate, and that candidate is the best-matching embedding record of
\* the file: the one with the highest similarity to the query among the code
\* embeddings of the file.
C32_BestEmbeddingPerFile ==
  code_results # Nothing =>
    /\ OncePerFile(code_results[1])
    /\ \A i \in 1..Len(code_results[1]) :
         CandidateSimilarity(code_results[1][i]) = doc_score(sdocs[code_results[1][i].file_id])

\* Each file contributes at most one candidate: the record that stands first
\* in its embeddings array.
C32_FirstEmbeddingPerFile ==
  code_results # Nothing =>
    /\ OncePerFile(code_results[1])
    /\ \A i \in 1..Len(code_results[1]) : code_results[1][i].embedding_index = 0

\* the results of the two searches for a file
HitsOf(f) ==
  {summary_results[1][i] : i \in {k \in 1..Len(summary_results[1]) :
                                    summary_results[1][k].file_id = f}}
    \cup {code_results[1][i] : i \in {k \in 1..Len(code_results[1]) :
                                        code_results[1][k].file_id = f}}

CodeHitsOf(f) == {h \in HitsOf(f) : h.embedding_type # "summary"}

\* search_code has merged the results of the two searches
Merged == spc \in {"merged", "returned"} /\ summary_results # Nothing /\ code_results # Nothing

\* C33: search_code returns each file at most once, in non-increasing order
\* of score; the score of a file is the highest final score among its summary
\* hit and its code-element hits, and code_elements is empty exactly for the
\* files matched only by summary.
C33_MergedResults ==
  Merged =>
    /\ OncePerFile(merged_results)
    /\ \A i \in 1..(Len(merged_results) - 1) :
         merged_results[i].similarity_score >= merged_results[i + 1].similarity_score
    /\ \A i \in 1..Len(merged_results) :
         LET entry == merged_results[i]
         IN /\ HitsOf(entry.file_id) # {}
            /\ entry.similarity_score =
                 Greatest({h.similarity_score : h \in HitsOf(entry.file_id)})
            /\ (entry.code_elements = <<>>) <=> (CodeHitsOf(entry.file_id) = {})

\* two files are returned: one matched only by summary, one whose code
\* element scores higher than its summary
C33_Witness ==
  /\ Merged
  /\ Len(merged_results) = 2
  /\ \E i \in 1..2 : merged_results[i].code_elements = <<>>
  /\ \E i \in 1..2 :
       /\ merged_results[i].code_elements # <<>>
       /\ \E h \in HitsOf(merged_results[i].file_id) :
            /\ h.embedding_type = "summary"
            /\ h.similarity_score < merged_results[i].similarity_score

\* the positions of the hits with a function among their code elements
HitsWithFunction ==
  {i \in 1..Len(merged_results) :
     \E k \in 1..Len(merged_results[i].code_elements) :
       merged_results[i].code_elements[k].type = "function"}

\* C34: with no exact-name match, find_function falls back to search_code
\* and returns a function taken from the first hit, in result order, whose
\* code_elements contains an element of type function; it returns nothing
\* only if no returned hit contains a function element.
C34_FunctionOfFirstHitWithOne ==
  spc = "returned" =>
    IF HitsWithFunction = {}
      THEN fallback_result = Nothing
      ELSE /\ fallback_result # Nothing
           /\ \E i \in HitsWithFunction :
                /\ \A j \in HitsWithFunction : i <= j
                /\ fallback_result[1].file_id = merged_results[i].file_id

\* A function is returned exactly when the first hit has one among its code
\* elements, and it is a function of that hit.
C34_FunctionOfFirstHitOnly ==
  spc = "returned" =>
    /\ fallback_result # Nothing <=> 1 \in HitsWithFunction
    /\ fallback_result # Nothing => fallback_result[1].file_id = merged_results[1].file_id

==========================================================================
